---- MODULE Spec2Model ----
(***************************************************************************)
(* typecast: a script of keystrokes is compiled to commands, a shell is    *)
(* opened in a pseudo-terminal (PtyManager), and the PlaybackEngine types  *)
(* the commands into it while a relay thread copies the child's output to  *)
(* standard output.  Text is modelled as a sequence of bytes (0..255).     *)
(***************************************************************************)
EXTENDS Integers, Sequences, FiniteSets, TLC

(***************************************************************************)
(* Bytes and strings                                                       *)
(***************************************************************************)

\* The printable ASCII characters, in code order starting at 0x20.
Ascii ==
  << " ", "!", "\"", "#", "$", "%", "&", "'", "(", ")", "*", "+", ",", "-", ".", "/",
     "0", "1", "2", "3", "4", "5", "6", "7", "8", "9", ":", ";", "<", "=", ">", "?",
     "@", "A", "B", "C", "D", "E", "F", "G", "H", "I", "J", "K", "L", "M", "N", "O",
     "P", "Q", "R", "S", "T", "U", "V", "W", "X", "Y", "Z", "[", "\\", "]", "^", "_",
     "GRAVE", "a", "b", "c", "d", "e", "f", "g", "h", "i", "j", "k", "l", "m", "n", "o",
     "p", "q", "r", "s", "t", "u", "v", "w", "x", "y", "z", "{", "|", "}", "~" >>

\* The byte of a printable ASCII character (Rust: ch as u8, b'a'); the entry
\* at 0x60 is a placeholder, as a string cannot hold that character.
Ord(c) == 31 + (CHOOSE i \in 1..Len(Ascii) : Ascii[i] = c)

\* A string literal of the source as the bytes of its UTF-8 encoding.
Str(t) == [i \in 1..Len(t) |-> Ord(t[i])]

ESC == 27
NUL == 0
CR == 13
TAB == 9
DEL == 127
GS == 29
FS == 28

\* str::find: the index of the first byte b of s, 0 if there is none.
IndexOf(s, b) ==
  IF \E i \in 1..Len(s) : s[i] = b
    THEN CHOOSE i \in 1..Len(s) : s[i] = b /\ \A j \in 1..(i - 1) : s[j] # b
    ELSE 0

\* s[from..] of Rust (from is 0-based): the bytes after the first `from`.
Tail0(s, from) == SubSeq(s, from + 1, Len(s))

\* str::split(d): the parts of s between the occurrences of byte d.
RECURSIVE Split(_, _)
Split(s, d) ==
  LET k == IndexOf(s, d)
  IN  IF k = 0 THEN << s >>
      ELSE << SubSeq(s, 1, k - 1) >> \o Split(Tail0(s, k), d)

\* u8::is_ascii_lowercase, is_ascii_uppercase, is_ascii_digit.
IsAsciiLower(b) == b >= 97 /\ b <= 122
IsAsciiUpper(b) == b >= 65 /\ b <= 90
IsAsciiDigit(b) == b >= 48 /\ b <= 57
\* char::to_ascii_lowercase, to_ascii_uppercase.
ToAsciiLower(b) == IF IsAsciiUpper(b) THEN b + 32 ELSE b
ToAsciiUpper(b) == IF IsAsciiLower(b) THEN b - 32 ELSE b

\* The number of bytes of the UTF-8 code point whose first byte is b
\* (char::len_utf8 of the char that str::chars().next() decodes).
LenUtf8(b) ==
  IF b < 128 THEN 1 ELSE IF b < 224 THEN 2 ELSE IF b < 240 THEN 3 ELSE 4

(***************************************************************************)
(* Key Resolver (parser.rs)                                                *)
(***************************************************************************)

\* format!("<{}>", spec)
Bracketed(spec) == << Ord("<") >> \o spec \o << Ord(">") >>

\* The bare special keys of parse_special_key's match; <<>> stands for
\* "no arm of the table matched" (every entry of the table is non-empty).
SpecialKeyTable(k) ==
  CASE k = Str(<<"e","s","c">>) -> << ESC >>
    [] k = Str(<<"s","p","a","c","e">>) -> << Ord(" ") >>
    [] k \in { Str(<<"r","e","t">>), Str(<<"r","e","t","u","r","n">>),
               Str(<<"e","n","t","e","r">>) } -> << CR >>
    [] k = Str(<<"t","a","b">>) -> << TAB >>
    [] k \in { Str(<<"b","a","c","k","s","p","a","c","e">>), Str(<<"b","s">>) } -> << DEL >>
    [] k = Str(<<"F","1">>) -> << ESC >> \o Str(<<"O","P">>)
    [] k = Str(<<"F","2">>) -> << ESC >> \o Str(<<"O","Q">>)
    [] k = Str(<<"F","3">>) -> << ESC >> \o Str(<<"O","R">>)
    [] k = Str(<<"F","4">>) -> << ESC >> \o Str(<<"O","S">>)
    [] k = Str(<<"F","5">>) -> << ESC >> \o Str(<<"[","1","5","~">>)
    [] k = Str(<<"F","6">>) -> << ESC >> \o Str(<<"[","1","7","~">>)
    [] k = Str(<<"F","7">>) -> << ESC >> \o Str(<<"[","1","8","~">>)
    [] k = Str(<<"F","8">>) -> << ESC >> \o Str(<<"[","1","9","~">>)
    [] k = Str(<<"F","9">>) -> << ESC >> \o Str(<<"[","2","0","~">>)
    [] k = Str(<<"F","1","0">>) -> << ESC >> \o Str(<<"[","2","1","~">>)
    [] k = Str(<<"F","1","1">>) -> << ESC >> \o Str(<<"[","2","3","~">>)
    [] k = Str(<<"F","1","2">>) -> << ESC >> \o Str(<<"[","2","4","~">>)
    [] k = Str(<<"u","p">>) -> << ESC >> \o Str(<<"[","A">>)
    [] k = Str(<<"d","o","w","n">>) -> << ESC >> \o Str(<<"[","B">>)
    [] k = Str(<<"r","i","g","h","t">>) -> << ESC >> \o Str(<<"[","C">>)
    [] k = Str(<<"l","e","f","t">>) -> << ESC >> \o Str(<<"[","D">>)
    [] k = Str(<<"h","o","m","e">>) -> << ESC >> \o Str(<<"[","H">>)
    [] k = Str(<<"e","n","d">>) -> << ESC >> \o Str(<<"[","F">>)
    [] k \in { Str(<<"p","a","g","e","u","p">>), Str(<<"p","g","u","p">>) }
         -> << ESC >> \o Str(<<"[","5","~">>)
    [] k \in { Str(<<"p","a","g","e","d","o","w","n">>), Str(<<"p","g","d","n">>) }
         -> << ESC >> \o Str(<<"[","6","~">>)
    [] k \in { Str(<<"i","n","s","e","r","t">>), Str(<<"i","n","s">>) }
         -> << ESC >> \o Str(<<"[","2","~">>)
    [] k \in { Str(<<"d","e","l","e","t","e">>), Str(<<"d","e","l">>) }
         -> << ESC >> \o Str(<<"[","3","~">>)
    [] OTHER -> << >>

\* The base keys of parse_modifier_combo's match (a second copy of the table
\* in the source); <<>> stands for "no special key matched".
BaseKeyTable(k) ==
  CASE k = Str(<<"e","s","c">>) -> << ESC >>
    [] k = Str(<<"s","p","a","c","e">>) -> << Ord(" ") >>
    [] k \in { Str(<<"r","e","t">>), Str(<<"r","e","t","u","r","n">>),
               Str(<<"e","n","t","e","r">>) } -> << CR >>
    [] k = Str(<<"t","a","b">>) -> << TAB >>
    [] k \in { Str(<<"b","a","c","k","s","p","a","c","e">>), Str(<<"b","s">>) } -> << DEL >>
    [] k = Str(<<"F","1">>) -> << ESC >> \o Str(<<"O","P">>)
    [] k = Str(<<"F","2">>) -> << ESC >> \o Str(<<"O","Q">>)
    [] k = Str(<<"F","3">>) -> << ESC >> \o Str(<<"O","R">>)
    [] k = Str(<<"F","4">>) -> << ESC >> \o Str(<<"O","S">>)
    [] k = Str(<<"F","5">>) -> << ESC >> \o Str(<<"[","1","5","~">>)
    [] k = Str(<<"F","6">>) -> << ESC >> \o Str(<<"[","1","7","~">>)
    [] k = Str(<<"F","7">>) -> << ESC >> \o Str(<<"[","1","8","~">>)
    [] k = Str(<<"F","8">>) -> << ESC >> \o Str(<<"[","1","9","~">>)
    [] k = Str(<<"F","9">>) -> << ESC >> \o Str(<<"[","2","0","~">>)
    [] k = Str(<<"F","1","0">>) -> << ESC >> \o Str(<<"[","2","1","~">>)
    [] k = Str(<<"F","1","1">>) -> << ESC >> \o Str(<<"[","2","3","~">>)
    [] k = Str(<<"F","1","2">>) -> << ESC >> \o Str(<<"[","2","4","~">>)
    [] k = Str(<<"u","p">>) -> << ESC >> \o Str(<<"[","A">>)
    [] k = Str(<<"d","o","w","n">>) -> << ESC >> \o Str(<<"[","B">>)
    [] k = Str(<<"r","i","g","h","t">>) -> << ESC >> \o Str(<<"[","C">>)
    [] k = Str(<<"l","e","f","t">>) -> << ESC >> \o Str(<<"[","D">>)
    [] k = Str(<<"h","o","m","e">>) -> << ESC >> \o Str(<<"[","H">>)
    [] k = Str(<<"e","n","d">>) -> << ESC >> \o Str(<<"[","F">>)
    [] k \in { Str(<<"p","a","g","e","u","p">>), Str(<<"p","g","u","p">>) }
         -> << ESC >> \o Str(<<"[","5","~">>)
    [] k \in { Str(<<"p","a","g","e","d","o","w","n">>), Str(<<"p","g","d","n">>) }
         -> << ESC >> \o Str(<<"[","6","~">>)
    [] k \in { Str(<<"i","n","s","e","r","t">>), Str(<<"i","n","s">>) }
         -> << ESC >> \o Str(<<"[","2","~">>)
    [] k \in { Str(<<"d","e","l","e","t","e">>), Str(<<"d","e","l">>) }
         -> << ESC >> \o Str(<<"[","3","~">>)
    [] OTHER -> << >>

\* The modifier tokens of parse_modifier_combo.
CtrlTokens == { Str(<<"C">>), Str(<<"c">>), Str(<<"C","t","r","l">>), Str(<<"c","t","r","l">>) }
AltTokens ==
  { Str(<<"A">>), Str(<<"a">>), Str(<<"A","l","t">>), Str(<<"a","l","t">>),
    Str(<<"M">>), Str(<<"m">>), Str(<<"M","e","t","a">>), Str(<<"m","e","t","a">>) }
ShiftTokens ==
  { Str(<<"S">>), Str(<<"s">>), Str(<<"S","h","i","f","t">>), Str(<<"s","h","i","f","t">>) }

\* parse_modifier_combo(spec): spec contains '-'.
parse_modifier_combo(spec) ==
  LET parts == Split(spec, Ord("-"))
      key == parts[Len(parts)]
      modifiers == { parts[i] : i \in 1..(Len(parts) - 1) }
      has_ctrl == modifiers \cap CtrlTokens # {}
      has_alt == modifiers \cap AltTokens # {}
      has_shift == modifiers \cap ShiftTokens # {}
      special == BaseKeyTable(key)
      base_key == IF special # << >> THEN special ELSE key
      ch == ToAsciiLower(key[1])
      up == ToAsciiUpper(key[1])
      literal == Bracketed(spec)
  IN  IF Len(parts) < 2 THEN literal
      ELSE IF special = << >> /\ Len(key) # 1 THEN literal
      ELSE IF has_ctrl /\ ~has_alt /\ ~has_shift /\ Len(key) = 1 /\ IsAsciiLower(ch)
        THEN << ch - 97 + 1 >>
      ELSE IF has_ctrl /\ ~has_alt /\ ~has_shift /\ Len(key) = 1 /\ ch = Ord(" ")
        THEN << NUL >>
      ELSE IF has_ctrl /\ ~has_alt /\ ~has_shift /\ Len(key) = 1 /\ ch = Ord("[")
        THEN << ESC >>
      ELSE IF has_ctrl /\ ~has_alt /\ ~has_shift /\ Len(key) = 1 /\ ch = Ord("]")
        THEN << GS >>
      ELSE IF has_ctrl /\ ~has_alt /\ ~has_shift /\ Len(key) = 1 /\ ch = Ord("\\")
        THEN << FS >>
      ELSE IF has_ctrl /\ ~has_alt /\ ~has_shift /\ Len(key) # 1
        THEN (IF key = Str(<<"s","p","a","c","e">>) THEN << NUL >> ELSE literal)
      ELSE IF has_alt /\ ~has_ctrl THEN << ESC >> \o base_key
      ELSE IF has_shift /\ ~has_ctrl /\ ~has_alt /\ Len(key) = 1 THEN << up >>
      ELSE IF has_ctrl /\ has_shift /\ ~has_alt /\ Len(key) = 1 /\ IsAsciiUpper(up)
        THEN << up - 65 + 1 >>
      ELSE IF has_ctrl /\ has_alt /\ Len(key) = 1 /\ IsAsciiLower(ch)
        THEN << ESC, ch - 97 + 1 >>
      ELSE IF has_ctrl /\ has_alt /\ Len(key) # 1 THEN << ESC >> \o base_key
      ELSE literal

\* A faulty match of parse_special_key: a key spec that is no bare special key
\* and no modifier combination resolves to nothing.
ResolveKeySpecDropUnknown(key_spec) ==
  IF SpecialKeyTable(key_spec) # << >> THEN SpecialKeyTable(key_spec)
  ELSE IF IndexOf(key_spec, Ord("-")) # 0
    THEN (IF parse_modifier_combo(key_spec) = Bracketed(key_spec) THEN << >>
          ELSE parse_modifier_combo(key_spec))
  ELSE << >>

\* The match of parse_special_key on the text between '<' and '>'.
ResolveKeySpec(key_spec) ==
  IF SpecialKeyTable(key_spec) # << >> THEN SpecialKeyTable(key_spec)
  ELSE IF IndexOf(key_spec, Ord("-")) # 0 THEN parse_modifier_combo(key_spec)
  ELSE Bracketed(key_spec)

\* A faulty parse_special_key: the key spec is not resolved.
parse_special_key_raw(input) ==
  LET body == Tail0(input, 1)
      k == IndexOf(body, Ord(">"))
  IN  IF k = 0 THEN [ok |-> FALSE, rest |-> input, seq |-> << >>]
      ELSE [ok |-> TRUE, rest |-> Tail0(body, k),
            seq |-> Bracketed(SubSeq(body, 1, k - 1))]

\* parse_special_key(input): input starts with '<'.  The result is
\* [ok, rest, seq]; it fails when no '>' follows (take_until(">")).
parse_special_key(input) ==
  LET body == Tail0(input, 1)
      k == IndexOf(body, Ord(">"))
  IN  IF k = 0 THEN [ok |-> FALSE, rest |-> input, seq |-> << >>]
      ELSE [ok |-> TRUE, rest |-> Tail0(body, k),
            seq |-> ResolveKeySpec(SubSeq(body, 1, k - 1))]

\* A faulty parse_type_content: it knows no escaped bracket.
RECURSIVE parse_type_content_no_escape(_)
parse_type_content_no_escape(remaining) ==
  IF remaining = << >> THEN << >>
  ELSE IF remaining[1] = Ord("<")
    THEN LET r == parse_special_key(remaining)
         IN  IF r.ok THEN r.seq \o parse_type_content_no_escape(r.rest)
             ELSE << Ord("<") >> \o parse_type_content_no_escape(Tail0(remaining, 1))
  ELSE LET n == LenUtf8(remaining[1])
       IN  SubSeq(remaining, 1, n) \o parse_type_content_no_escape(Tail0(remaining, n))

\* parse_type_content(input): the text of a type line with keys resolved.
RECURSIVE parse_type_content(_)
parse_type_content(remaining) ==
  IF remaining = << >> THEN << >>
  ELSE IF Len(remaining) >= 2 /\ remaining[1] = Ord("\\")
          /\ remaining[2] \in { Ord("<"), Ord(">") }
    THEN << remaining[2] >> \o parse_type_content(Tail0(remaining, 2))
  ELSE IF remaining[1] = Ord("<")
    THEN LET r == parse_special_key(remaining)
         IN  IF r.ok THEN r.seq \o parse_type_content(r.rest)
             ELSE << Ord("<") >> \o parse_type_content(Tail0(remaining, 1))
  ELSE LET n == LenUtf8(remaining[1])
       IN  SubSeq(remaining, 1, n) \o parse_type_content(Tail0(remaining, n))

(***************************************************************************)
(* Commands and scripts (types.rs)                                         *)
(***************************************************************************)

\* An f64 is held in millionths, exactly for the decimal texts used here
\* (at most six fraction digits, below 2000 in magnitude): 0.1 is F64(100000).
\* A finite value of 1e20 or more is "huge" (its micro is its sign), the
\* other kinds are "inf" and "nan".
F64(micro) == [kind |-> "finite", micro |-> micro]
Huge(sign) == [kind |-> "huge", micro |-> sign]
Infinity == [kind |-> "inf", micro |-> 1]
NaN == [kind |-> "nan", micro |-> 0]

\* enum Command.  SetSpeed and SetJitter hold an f64, Wait a Duration in
\* microseconds, SetShell and Type the bytes of a String.
SetSpeed(v) == [op |-> "SetSpeed", arg |-> v]
SetJitter(v) == [op |-> "SetJitter", arg |-> v]
Wait(d) == [op |-> "Wait", arg |-> d]
SetShell(s) == [op |-> "SetShell", arg |-> s]
SetSize(c, r) == [op |-> "SetSize", arg |-> << c, r >>]
Type(text) == [op |-> "Type", arg |-> text]

\* parse_type: the command of a `$` line whose body is `text`.
parse_type(text) == Type(parse_type_content(text))

\* Option<T>
None == << >>
Some(x) == << x >>

DefaultSpeedMs == 100
DefaultJitter == 0
\* impl Default for PlaybackConfig
DefaultConfig == [speed |-> F64(DefaultSpeedMs * 1000), jitter |-> F64(DefaultJitter)]

DefaultCols == 80
DefaultRows == 24

(***************************************************************************)
(* Script Compiler (parser.rs)                                             *)
(***************************************************************************)

LF == 10

\* char::is_whitespace, on an ASCII byte.
IsSpace(b) == b \in { TAB, LF, 11, 12, CR, Ord(" ") }

\* str::starts_with
StartsWith(s, t) == Len(s) >= Len(t) /\ SubSeq(s, 1, Len(t)) = t

\* str::trim_start, trim_end, trim
RECURSIVE TrimStart(_)
TrimStart(s) == IF s # << >> /\ IsSpace(s[1]) THEN TrimStart(Tail0(s, 1)) ELSE s

RECURSIVE TrimEnd(_)
TrimEnd(s) ==
  IF s # << >> /\ IsSpace(s[Len(s)]) THEN TrimEnd(SubSeq(s, 1, Len(s) - 1)) ELSE s

Trim(s) == TrimEnd(TrimStart(s))

\* str::lines: the parts between line feeds, without the carriage return
\* before a line feed, and without an empty part after the last line feed.
Lines(input) ==
  LET parts == Split(input, LF)
      n == Len(parts)
      m == IF parts[n] = << >> THEN n - 1 ELSE n
      StripCr(l) == IF l # << >> /\ l[Len(l)] = CR THEN SubSeq(l, 1, Len(l) - 1) ELSE l
  IN  [k \in 1..m |-> IF k < n THEN StripCr(parts[k]) ELSE parts[k]]

\* nom space0: the input after its leading spaces and tabs.
RECURSIVE space0(_)
space0(input) ==
  IF input # << >> /\ input[1] \in { Ord(" "), TAB } THEN space0(Tail0(input, 1))
  ELSE input

\* The number of ASCII digits s starts with (nom digit0, digit1).
CountDigits(s) ==
  LET ns == { k \in 0..Len(s) : \A j \in 1..k : IsAsciiDigit(s[j]) }
  IN  CHOOSE k \in ns : \A j \in ns : j <= k

\* The number a sequence of ASCII digits denotes.
RECURSIVE DigitsValue(_)
DigitsValue(ds) ==
  IF ds = << >> THEN 0
  ELSE 10 * DigitsValue(SubSeq(ds, 1, Len(ds) - 1)) + (ds[Len(ds)] - Ord("0"))

RECURSIVE Pow10(_)
Pow10(n) == IF n = 0 THEN 1 ELSE 10 * Pow10(n - 1)

\* The number of decimal digits of n > 0.
RECURSIVE NumDigits(_)
NumDigits(n) == IF n < 10 THEN 1 ELSE 1 + NumDigits(n \div 10)

\* nom not_line_ending: the input up to its first line ending; a carriage
\* return that no line feed follows is an error.
not_line_ending(input) ==
  LET ks == { k \in 1..Len(input) : input[k] \in { CR, LF } }
      k == CHOOSE j \in ks : \A l \in ks : j <= l
  IN  IF ks = {} THEN [ok |-> TRUE, rest |-> << >>, out |-> input]
      ELSE IF input[k] = CR /\ ~(k < Len(input) /\ input[k + 1] = LF)
        THEN [ok |-> FALSE, rest |-> input, out |-> << >>]
      ELSE [ok |-> TRUE, rest |-> Tail0(input, k - 1), out |-> SubSeq(input, 1, k - 1)]

\* The f64 of a decimal float: sign, the digits of the mantissa, the number
\* n2 of them after the point, and the exponent.
FloatValue(sign, digits, n2, exponent) ==
  LET N == DigitsValue(digits)
      p == exponent - n2 + 6
  IN  IF N > 0 /\ NumDigits(N) - 1 - n2 + exponent >= 20 THEN Huge(sign)
      ELSE IF p >= 0 THEN F64(sign * N * Pow10(p))
      ELSE F64(sign * (N \div Pow10(0 - p)))

\* The last two arms of double: "nan" or "inf" in any case, without a sign.
FloatWord(input) ==
  LET word == [k \in 1..(IF Len(input) < 3 THEN Len(input) ELSE 3) |->
                 ToAsciiLower(input[k])]
  IN  IF word = Str(<<"n","a","n">>)
        THEN [ok |-> TRUE, rest |-> Tail0(input, 3), value |-> NaN]
      ELSE IF word = Str(<<"i","n","f">>)
        THEN [ok |-> TRUE, rest |-> Tail0(input, 3), value |-> Infinity]
      ELSE [ok |-> FALSE, rest |-> input, value |-> NaN]

\* The exponent of a float, from its digits e1 on (n3 of them): once 'e' has
\* been read the digits are required.
FloatExpDigits(input, sign, digits, n2, esign, e1, n3) ==
  IF n3 = 0 THEN [ok |-> FALSE, rest |-> input, value |-> NaN]
  ELSE [ok |-> TRUE, rest |-> Tail0(e1, n3),
        value |-> FloatValue(sign, digits, n2, esign * DigitsValue(SubSeq(e1, 1, n3)))]

\* The optional exponent of a float, c being the input after the mantissa.
FloatExponent(input, sign, digits, n2, c) ==
  IF c # << >> /\ c[1] \in { Ord("e"), Ord("E") }
    THEN LET d == Tail0(c, 1)
             esigned == d # << >> /\ d[1] \in { Ord("+"), Ord("-") }
         IN  FloatExpDigits(input, sign, digits, n2,
                            IF esigned /\ d[1] = Ord("-") THEN -1 ELSE 1,
                            IF esigned THEN Tail0(d, 1) ELSE d,
                            CountDigits(IF esigned THEN Tail0(d, 1) ELSE d))
    ELSE [ok |-> TRUE, rest |-> c, value |-> FloatValue(sign, digits, n2, 0)]

\* The mantissa of a float: n1 digits of a, then, if dot, a point and n2
\* digits; digits before the point or after it are required.
FloatMantissa(input, sign, a, n1, dot, n2) ==
  IF n1 > 0 \/ (dot /\ n2 > 0)
    THEN FloatExponent(input, sign,
                       SubSeq(a, 1, n1) \o (IF dot THEN SubSeq(a, n1 + 2, n1 + 1 + n2)
                                            ELSE << >>),
                       n2, IF dot THEN Tail0(a, n1 + 1 + n2) ELSE Tail0(a, n1))
    ELSE FloatWord(input)

\* The float that starts at a, the input after its sign.
FloatUnsigned(input, sign, a, n1) ==
  LET dot == n1 < Len(a) /\ a[n1 + 1] = Ord(".")
  IN  FloatMantissa(input, sign, a, n1, dot,
                    IF dot THEN CountDigits(Tail0(a, n1 + 1)) ELSE 0)

\* parse_float: nom's double.  A float is an optional sign, digits with an
\* optional fraction (or a fraction alone) and an optional exponent; or,
\* without a sign, "nan" or "inf" in any case.  The result is
\* [ok, rest, value].
parse_float(input) ==
  LET signed == input # << >> /\ input[1] \in { Ord("+"), Ord("-") }
      a == IF signed THEN Tail0(input, 1) ELSE input
  IN  FloatUnsigned(input, IF signed /\ input[1] = Ord("-") THEN -1 ELSE 1, a,
                    CountDigits(a))

\* nom character::complete::u16: digits whose value fits sixteen bits.
\* The result is [ok, rest, value].
parse_u16(input) ==
  LET n == CountDigits(input)
      ds == SubSeq(input, 1, n)
      zs == { k \in 0..n : \A j \in 1..k : ds[j] = Ord("0") }
      z == CHOOSE k \in zs : \A j \in zs : j <= k
      v == IF n - z > 5 THEN 65536 ELSE DigitsValue(SubSeq(ds, z + 1, n))
  IN  IF n = 0 \/ v > 65535 THEN [ok |-> FALSE, rest |-> input, value |-> 0]
      ELSE [ok |-> TRUE, rest |-> Tail0(input, n), value |-> v]

\* What a line parser returns: Ok((rest, cmd)), an error, or a panic.
NoCmd == [op |-> "None", arg |-> << >>]
Parsed(rest, cmd) == [ok |-> TRUE, panic |-> FALSE, rest |-> rest, cmd |-> cmd]
Failed(input) == [ok |-> FALSE, panic |-> FALSE, rest |-> input, cmd |-> NoCmd]
Panicked(input) == [ok |-> FALSE, panic |-> TRUE, rest |-> input, cmd |-> NoCmd]

\* tag("@"), space0, tag(name): the input after them, None if one fails.
DirectiveHead(input, name) ==
  IF ~StartsWith(input, Str(<<"@">>)) THEN None
  ELSE LET r == space0(Tail0(input, 1))
       IN  IF StartsWith(r, name) THEN Some(Tail0(r, Len(name))) ELSE None

\* The command of a directive whose float f has been parsed, op being its
\* constructor's name.  Duration::from_secs_f64 panics on a value that is
\* negative, not finite, or beyond the range of a Duration.
FloatDirective(input, op, f) ==
  IF ~f.ok THEN Failed(input)
  ELSE IF op = "SetSpeed" THEN Parsed(f.rest, SetSpeed(f.value))
  ELSE IF op = "SetJitter" THEN Parsed(f.rest, SetJitter(f.value))
  ELSE IF f.value.kind # "finite" \/ f.value.micro < 0 THEN Panicked(input)
  ELSE Parsed(f.rest, Wait(f.value.micro))

parse_speed(input) ==
  LET h == DirectiveHead(input, Str(<<"s","p","e","e","d",":">>))
  IN  IF h = None THEN Failed(input)
      ELSE FloatDirective(input, "SetSpeed", parse_float(h[1]))

parse_jitter(input) ==
  LET h == DirectiveHead(input, Str(<<"j","i","t","t","e","r",":">>))
  IN  IF h = None THEN Failed(input)
      ELSE FloatDirective(input, "SetJitter", parse_float(h[1]))

parse_wait(input) ==
  LET h == DirectiveHead(input, Str(<<"w","a","i","t",":">>))
  IN  IF h = None THEN Failed(input)
      ELSE FloatDirective(input, "Wait", parse_float(h[1]))

parse_shell(input) ==
  LET h == DirectiveHead(input, Str(<<"s","h","e","l","l",":">>))
      l == not_line_ending(h[1])
  IN  IF h = None \/ ~l.ok THEN Failed(input) ELSE Parsed(l.rest, SetShell(Trim(l.out)))

parse_size(input) ==
  LET h == DirectiveHead(input, Str(<<"s","i","z","e",":">>))
      cols == parse_u16(h[1])
      colon == cols.rest # << >> /\ cols.rest[1] = Ord(":")
      rows == parse_u16(Tail0(cols.rest, 1))
  IN  IF h = None \/ ~cols.ok \/ ~colon \/ ~rows.ok THEN Failed(input)
      ELSE Parsed(rows.rest, SetSize(cols.value, rows.value))

\* nom alt: the result of the first parser that succeeds (or panics), the
\* result of the last if none does.
alt(results) ==
  LET ks == { k \in 1..Len(results) : results[k].ok \/ results[k].panic }
  IN  IF ks = {} THEN results[Len(results)]
      ELSE results[CHOOSE k \in ks : \A j \in ks : k <= j]

\* parse_directive: the first of the five that succeeds.
parse_directive(input) ==
  alt(<< parse_speed(input), parse_jitter(input), parse_wait(input),
         parse_shell(input), parse_size(input) >>)

parse_comment(input) ==
  LET l == not_line_ending(Tail0(input, 1))
  IN  IF ~StartsWith(input, Str(<<"#">>)) \/ ~l.ok THEN Failed(input)
      ELSE Parsed(l.rest, NoCmd)

\* parse_type as a parser of a whole line: char('$'), space0, not_line_ending.
parse_type_line(input) ==
  LET l == not_line_ending(space0(Tail0(input, 1)))
  IN  IF ~StartsWith(input, Str(<<"$">>)) \/ ~l.ok THEN Failed(input)
      ELSE Parsed(l.rest, parse_type(l.out))

\* parse_line: a directive, else a comment (no command), else a type line.
parse_line(input) ==
  alt(<< parse_directive(input), parse_comment(input), parse_type_line(input) >>)

\* What parse_script returns: Ok(Script), or Err with the 1-based number of
\* the line and the kind of message; "Panic" is the process aborting.
ScriptOk(commands) == [kind |-> "Ok", commands |-> commands, line |-> 0, msg |-> ""]
ScriptErr(line, msg) == [kind |-> "Err", commands |-> << >>, line |-> line, msg |-> msg]
ScriptPanic(line) == [kind |-> "Panic", commands |-> << >>, line |-> line, msg |-> ""]

\* A faulty loop of parse_script: a line that does not parse is skipped, and
\* so is the text after a command.
RECURSIVE ParseLinesLenient(_, _, _)
ParseLinesLenient(lines, k, commands) ==
  IF k > Len(lines) THEN ScriptOk(commands)
  ELSE LET trimmed == Trim(lines[k])
           r == parse_line(trimmed)
       IN  IF trimmed = << >> THEN ParseLinesLenient(lines, k + 1, commands)
           ELSE IF r.panic THEN ScriptPanic(k)
           ELSE IF ~r.ok THEN ParseLinesLenient(lines, k + 1, commands)
           ELSE IF r.cmd.op = "None" THEN ParseLinesLenient(lines, k + 1, commands)
           ELSE ParseLinesLenient(lines, k + 1, Append(commands, r.cmd))

\* A faulty loop of parse_script: a command is put before the ones made so
\* far, not after them.
RECURSIVE ParseLinesReversed(_, _, _)
ParseLinesReversed(lines, k, commands) ==
  IF k > Len(lines) THEN ScriptOk(commands)
  ELSE LET trimmed == Trim(lines[k])
           r == parse_line(trimmed)
       IN  IF trimmed = << >> THEN ParseLinesReversed(lines, k + 1, commands)
           ELSE IF r.panic THEN ScriptPanic(k)
           ELSE IF ~r.ok THEN ScriptErr(k, "Parse error")
           ELSE IF r.cmd.op = "None" THEN ParseLinesReversed(lines, k + 1, commands)
           ELSE IF Trim(r.rest) # << >>
             THEN ScriptErr(k, "Unexpected text after command")
           ELSE ParseLinesReversed(lines, k + 1, << r.cmd >> \o commands)

\* The loop of parse_script from line k on, with the commands made so far.
RECURSIVE ParseLines(_, _, _)
ParseLines(lines, k, commands) ==
  IF k > Len(lines) THEN ScriptOk(commands)
  ELSE LET trimmed == Trim(lines[k])
           r == parse_line(trimmed)
       IN  IF trimmed = << >> THEN ParseLines(lines, k + 1, commands)
           ELSE IF r.panic THEN ScriptPanic(k)
           ELSE IF ~r.ok THEN ScriptErr(k, "Parse error")
           ELSE IF r.cmd.op = "None" THEN ParseLines(lines, k + 1, commands)
           ELSE IF Trim(r.rest) # << >>
             THEN ScriptErr(k, "Unexpected text after command")
           ELSE ParseLines(lines, k + 1, Append(commands, r.cmd))

parse_script(input) == ParseLines(Lines(input), 1, << >>)

(***************************************************************************)
(* The inputs of a run                                                     *)
(***************************************************************************)

\* The compiled scripts a run draws from.
Scripts ==
  << \* @ shell:sh / @ size:120:40 / $ <A-up>
     << SetShell(Str(<<"s","h">>)), SetSize(120, 40), parse_type(Str(<<"<","A","-","u","p",">">>)) >>,
     \* @ speed:0.05 / $ a<up> / @ wait:0.001 / @ jitter:0.1 / $ b
     << SetSpeed(F64(50000)), parse_type(Str(<<"a","<","u","p",">">>)), Wait(1000),
        SetJitter(F64(100000)), parse_type(Str(<<"b">>)) >>,
     \* $ <esc><up> / @ shell:sh / @ size:100:30
     << parse_type(Str(<<"<","e","s","c",">","<","u","p",">">>)), SetShell(Str(<<"s","h">>)),
        SetSize(100, 30) >>,
     \* a script of comments only
     << >> >>

\* --shell and $SHELL
CliShells == { None, Some(Str(<<"z","s","h">>)) }
EnvShells == { None, Some(Str(<<"f","i","s","h">>)) }

\* The terminal modes a run can start in; neither is raw mode.
PriorModes == { "cooked", "noecho" }

\* The child writes at most MaxOut bytes; its k-th byte has the value k.
MaxOut == 2

(***************************************************************************)
(* Playback Engine: pure parts (playback.rs)                               *)
(***************************************************************************)

\* The loop of escape_sequence_length's CSI arm: from 0-based index i, skip
\* the parameter bytes (ASCII digits and ';').
RECURSIVE SkipParams(_, _)
SkipParams(bytes, i) ==
  IF i < Len(bytes) /\ (IsAsciiDigit(bytes[i + 1]) \/ bytes[i + 1] = Ord(";"))
    THEN SkipParams(bytes, i + 1)
    ELSE i

\* A faulty escape_sequence_length: the CSI arm takes the final byte for
\* granted, and counts one where none is left.
escape_sequence_length_overrun(bytes) ==
  IF bytes = << >> \/ bytes[1] # ESC THEN 1
  ELSE IF Len(bytes) = 1 THEN 1
  ELSE IF bytes[2] = Ord("[") THEN SkipParams(bytes, 2) + 1
  ELSE IF bytes[2] = Ord("O")
    THEN (IF Len(bytes) > 2 THEN 3 ELSE Len(bytes))
  ELSE 2

\* PlaybackEngine::escape_sequence_length
escape_sequence_length(bytes) ==
  IF bytes = << >> \/ bytes[1] # ESC THEN 1
  ELSE IF Len(bytes) = 1 THEN 1
  ELSE IF bytes[2] = Ord("[")
    THEN LET i == SkipParams(bytes, 2)
         IN  IF i < Len(bytes) THEN i + 1 ELSE Len(bytes)
  ELSE IF bytes[2] = Ord("O")
    THEN (IF Len(bytes) > 2 THEN 3 ELSE Len(bytes))
  ELSE 2

\* A faulty unit: a character outside an escape run is taken to be one byte
\* long.
UnitLenBytewise(text, i) ==
  IF text[i + 1] = ESC THEN escape_sequence_length(Tail0(text, i))
  ELSE 1

\* The number of bytes of the unit the Type loop sends at 0-based offset i:
\* an escape run at an ESC byte, one code point otherwise.
UnitLen(text, i) ==
  IF text[i + 1] = ESC THEN escape_sequence_length(Tail0(text, i))
  ELSE LenUtf8(text[i + 1])

\* text[i..i + n]
Slice(text, i, n) == SubSeq(text, i + 1, i + n)

\* str::is_char_boundary(k), k a 0-based byte offset: the start, the end, or
\* a byte that is not a continuation byte (0x80 to 0xBF).
IsCharBoundary(text, k) ==
  \/ k = 0
  \/ k = Len(text)
  \/ k < Len(text) /\ ~(text[k + 1] >= 128 /\ text[k + 1] < 192)

\* calculate_delay: base_ms, (speed * 1000.0) as u64, and jitter_ms,
\* (base_ms as f64 * jitter) as u64, for a finite speed and jitter.  The
\* cast drops the fraction and makes 0 of a negative value; the rounding of
\* the f64 product is not modelled.
base_ms(cfg) == IF cfg.speed.micro < 0 THEN 0 ELSE cfg.speed.micro \div 1000
jitter_ms(cfg) ==
  IF cfg.jitter.micro < 0 THEN 0 ELSE (base_ms(cfg) * cfg.jitter.micro) \div 1000000

\* u64::saturating_sub
saturating_sub(a, b) == IF a > b THEN a - b ELSE 0

\* A faulty calculate_delay: the variation is added and jitter_ms is not
\* taken off.
calculate_delay_uncentred(cfg, variation) ==
  IF jitter_ms(cfg) > 0 THEN base_ms(cfg) + variation ELSE base_ms(cfg)

\* PlaybackEngine::calculate_delay, in milliseconds; variation is what
\* rng.gen_range(0..=jitter_ms * 2) returns (the sum stays far below 2^64).
calculate_delay(cfg, variation) ==
  IF jitter_ms(cfg) > 0
    THEN saturating_sub(base_ms(cfg) + variation, jitter_ms(cfg))
    ELSE base_ms(cfg)

(***************************************************************************)
(* Terminal Session Manager: pure parts (pty.rs)                           *)
(***************************************************************************)

\* A faulty send_keystroke: it does not look at whether the write handle has
\* been closed.
send_keystroke_unchecked(w, input, data, fail) ==
  IF fail THEN [ok |-> FALSE, input |-> input]
  ELSE [ok |-> TRUE, input |-> Append(input, data)]

\* PtyManager::send_keystroke on a session whose write handle is w and whose
\* child has so far received `input`; `fail` is whether write_all or flush
\* fails.  The result is whether Ok was returned and what the child has
\* received afterwards.
send_keystroke(w, input, data, fail) ==
  IF w # "open" THEN [ok |-> FALSE, input |-> input]
  ELSE IF fail THEN [ok |-> FALSE, input |-> input]
  ELSE [ok |-> TRUE, input |-> Append(input, data)]

\* PtyManager::send_char: the char's UTF-8 bytes through send_keystroke.
send_char(w, input, c, fail) == send_keystroke(w, input, c, fail)

(***************************************************************************)
(* main: pure parts (main.rs)                                              *)
(***************************************************************************)

\* default_shell: the command-line shell, else $SHELL, else bash.
default_shell(cli, env) ==
  IF cli # None THEN cli[1] ELSE IF env # None THEN env[1] ELSE Str(<<"b","a","s","h">>)

\* A faulty scan: it does not stop at the first Type, so that directives
\* after it are applied as well.
RECURSIVE ScanCommandsAll(_, _, _)
ScanCommandsAll(cmds, k, acc) ==
  IF k > Len(cmds) THEN acc
  ELSE IF cmds[k].op = "SetShell"
    THEN ScanCommandsAll(cmds, k + 1, [acc EXCEPT !.shell = cmds[k].arg])
  ELSE IF cmds[k].op = "SetSize"
    THEN ScanCommandsAll(cmds, k + 1,
                         [acc EXCEPT !.cols = cmds[k].arg[1], !.rows = cmds[k].arg[2]])
  ELSE ScanCommandsAll(cmds, k + 1, acc)

\* The scan of main over the commands from index k on, stopping at the first
\* Type: the last SetShell and the last SetSize before it replace the
\* values held in acc.
RECURSIVE ScanCommands(_, _, _)
ScanCommands(cmds, k, acc) ==
  IF k > Len(cmds) THEN acc
  ELSE IF cmds[k].op = "SetShell"
    THEN ScanCommands(cmds, k + 1, [acc EXCEPT !.shell = cmds[k].arg])
  ELSE IF cmds[k].op = "SetSize"
    THEN ScanCommands(cmds, k + 1,
                      [acc EXCEPT !.cols = cmds[k].arg[1], !.rows = cmds[k].arg[2]])
  ELSE IF cmds[k].op = "Type" THEN acc
  ELSE ScanCommands(cmds, k + 1, acc)

\* The shell and size main opens the session with.
ResolveSession(cli, env, cmds) ==
  ScanCommands(cmds, 1,
               [shell |-> default_shell(cli, env), cols |-> DefaultCols,
                rows |-> DefaultRows])

(***************************************************************************)
(* State                                                                   *)
(***************************************************************************)

VARIABLES
  cliShell,      \* args.shell: None or Some(shell)
  envShell,      \* $SHELL: None or Some(shell)
  stdoutTty,     \* std::io::stdout().is_terminal()
  stdinTty,      \* std::io::stdin().is_terminal()
  script,        \* the compiled commands
  pc,            \* where main is
  session,       \* [shell, cols, rows] main opens the session with
  result,        \* what main returns: "none", "ok" or "err"
  path,          \* the way main left the playback
  printed,       \* what main itself has printed to standard output
  preMode,       \* the mode of the terminal when the program started
  termMode,      \* the mode of the terminal now
  savedMode,     \* the mode enable_raw_mode saved: None or Some(mode)
  guard,         \* RawModeGuard: "none", "on" (enabled), "off", "dropped"
  writer,        \* PtyManager.writer: "none", "open", "closed"
  reader_thread, \* PtyManager._reader_thread: "none", "held", "joined"
  relay,         \* the relay thread: "none", "running", "eof", "failed"
  chunk,         \* the bytes the relay has read and not yet written
  child,         \* the shell: "none", "alive", "exited"
  produced,      \* every byte the child has written to the pty, in order
  ptyOut,        \* the child's bytes the relay has not read yet
  stdout,        \* the bytes the relay has written to standard output
  sent,          \* the units written to the child, one per successful send
  stdinPending,  \* input events waiting on standard input
  running,       \* the Running flag
  handler,       \* whether the Ctrl-C handler is installed
  config,        \* PlaybackConfig
  cmdIdx,        \* execute: the index of the current command
  i,             \* Type: the 0-based byte offset of the next unit
  epc,           \* where the engine is: loop, cmd, wait, type, send, delay
  delays,        \* the inter-unit delays slept so far
  checks,        \* the reads of the Running flag that returned true
  started,       \* the commands execute has started
  checkFalse,    \* whether a read of the Running flag returned false
  dpc,           \* where the teardown is
  tlog,          \* the teardown steps done, in order
  sendRes,       \* the results of the sends made through the session's API
  source,        \* the text of a script file handed to parse_script
  compiled,      \* None, or Some(what parse_script made of source)
  delay,         \* None, or Some(the milliseconds calculate_delay returned)
  escInput,      \* the bytes handed to escape_sequence_length
  seqLen         \* None, or Some(what escape_sequence_length returned)

inputs == << cliShell, envShell, stdoutTty, stdinTty, script, preMode >>
mainVars == << pc, session, result, path, printed >>
termVars == << termMode, savedMode, guard, stdinPending >>
ptyVars == << writer, reader_thread, sent >>
relayVars == << relay, chunk, ptyOut, stdout >>
childVars == << child, produced >>
engineVars == << running, handler, config, cmdIdx, i, epc, delays, checks, started,
                 checkFalse >>
dropVars == << dpc, tlog >>
calcVars == << source, compiled, delay, escInput, seqLen >>
vars == << inputs, mainVars, termVars, ptyVars, relayVars, childVars, engineVars,
           dropVars, sendRes, calcVars >>

\* The state before main runs, but for the inputs.
Blank ==
  /\ pc = "resolve"
  /\ session = [shell |-> << >>, cols |-> 0, rows |-> 0]
  /\ result = "none"
  /\ path = "none"
  /\ printed = << >>
  /\ termMode = preMode
  /\ savedMode = None
  /\ guard = "none"
  /\ writer = "none"
  /\ reader_thread = "none"
  /\ relay = "none"
  /\ chunk = << >>
  /\ child = "none"
  /\ produced = << >>
  /\ ptyOut = << >>
  /\ stdout = << >>
  /\ sent = << >>
  /\ stdinPending = 0
  /\ running = TRUE
  /\ handler = FALSE
  /\ config = DefaultConfig
  /\ cmdIdx = 1
  /\ i = 0
  /\ epc = "loop"
  /\ delays = 0
  /\ checks = 0
  /\ started = 0
  /\ checkFalse = FALSE
  /\ dpc = "none"
  /\ tlog = << >>
  /\ sendRes = << >>

Init ==
  /\ cliShell \in CliShells
  /\ envShell \in EnvShells
  /\ stdoutTty \in BOOLEAN
  /\ stdinTty \in BOOLEAN
  /\ \E k \in 1..Len(Scripts) : script = Scripts[k]
  /\ preMode \in PriorModes
  /\ Blank
  /\ source = << >>
  /\ compiled = None
  /\ delay = None
  /\ escInput = << >>
  /\ seqLen = None

(***************************************************************************)
(* main (main.rs)                                                          *)
(***************************************************************************)

\* main, lines 50-76: the shell and the size of the session.
ResolveShell ==
  /\ pc = "resolve"
  /\ session' = ResolveSession(cliShell, envShell, script)
  /\ pc' = "status"
  /\ UNCHANGED << inputs, calcVars, result, path, printed, termVars, ptyVars, relayVars,
                  childVars, engineVars, dropVars, sendRes >>

\* main, lines 78-82: the status lines, then a second's pause.
PrintStatus ==
  /\ pc = "status"
  /\ printed' = Append(printed, "status")
  /\ pc' = "guard"
  /\ UNCHANGED << inputs, calcVars, session, result, path, termVars, ptyVars, relayVars,
                  childVars, engineVars, dropVars, sendRes >>

\* The return of main with an error, or to the teardown of what it owns.
Leave(how, from) ==
  /\ result' = how
  /\ path' = from

(***************************************************************************)
(* Terminal Session Manager (pty.rs)                                       *)
(***************************************************************************)

\* A faulty RawModeGuard::new: raw mode is enabled whether or not standard
\* output is a terminal.
RawModeGuardNewAlways ==
  /\ pc = "guard"
  /\ termMode' = "raw"
  /\ savedMode' = Some(termMode)
  /\ guard' = "on"
  /\ pc' = "openpty"
  /\ UNCHANGED << inputs, calcVars, session, result, path, printed, stdinPending, ptyVars,
                  relayVars, childVars, engineVars, dropVars, sendRes >>

\* RawModeGuard::new, the first step of PtyManager::new.  enable_raw_mode
\* saves the terminal's mode and sets raw mode; when it fails the terminal
\* is as it was and main returns the error.
RawModeGuardNew ==
  /\ pc = "guard"
  /\ IF stdoutTty
       THEN \E ok \in BOOLEAN :
              IF ok
                THEN /\ termMode' = "raw"
                     /\ savedMode' = Some(termMode)
                     /\ guard' = "on"
                     /\ pc' = "openpty"
                     /\ UNCHANGED << result, path >>
                ELSE /\ pc' = "exited"
                     /\ Leave("err", "raw_fail")
                     /\ UNCHANGED << termMode, savedMode, guard >>
       ELSE /\ guard' = "off"
            /\ pc' = "openpty"
            /\ UNCHANGED << termMode, savedMode, result, path >>
  /\ UNCHANGED << inputs, calcVars, session, printed, stdinPending, ptyVars, relayVars,
                  childVars, engineVars, dropVars, sendRes >>

\* A faulty PtyManager::new: when a step fails the guard is not dropped.
OpenPtyLeak ==
  /\ pc = "openpty"
  /\ \E outcome \in { "ok", "fail_before_spawn" } :
       IF outcome = "ok"
         THEN /\ child' = "alive"
              /\ writer' = "open"
              /\ reader_thread' = "held"
              /\ relay' = "running"
              /\ pc' = "engine_new"
              /\ UNCHANGED << result, path >>
         ELSE /\ pc' = "exited"
              /\ Leave("err", "new_fail")
              /\ UNCHANGED << child, writer, reader_thread, relay >>
  /\ UNCHANGED << inputs, calcVars, session, printed, termVars, sent, chunk, ptyOut, stdout,
                  produced, engineVars, dropVars, sendRes >>

\* PtyManager::new after the guard: openpty, spawn_command, the reader and
\* the writer, and the relay thread.  A failing step returns the error, which
\* drops the guard; a step after spawn_command leaves the child behind.
OpenPty ==
  /\ pc = "openpty"
  /\ \E outcome \in { "ok", "fail_before_spawn", "fail_after_spawn" } :
       IF outcome = "ok"
         THEN /\ child' = "alive"
              /\ writer' = "open"
              /\ reader_thread' = "held"
              /\ relay' = "running"
              /\ pc' = "engine_new"
              /\ UNCHANGED << result, path, dpc >>
         ELSE /\ child' = IF outcome = "fail_after_spawn" THEN "alive" ELSE "none"
              /\ pc' = "drop"
              /\ dpc' = "guard"
              /\ Leave("err", "new_fail")
              /\ UNCHANGED << writer, reader_thread, relay >>
  /\ UNCHANGED << inputs, calcVars, session, printed, termVars, sent, chunk, ptyOut, stdout,
                  produced, engineVars, tlog, sendRes >>

\* A faulty drop: the write handle is left open.
DropKeepsWriter ==
  /\ pc = "drop"
  /\ dpc = "close"
  /\ tlog' = Append(tlog, "close_writer")
  /\ dpc' = "join"
  /\ UNCHANGED << inputs, calcVars, mainVars, termVars, ptyVars, relayVars, childVars,
                  engineVars, sendRes >>

\* Drop for PtyManager, line 156: the write handle is closed.
DropCloseWriter ==
  /\ pc = "drop"
  /\ dpc = "close"
  /\ writer' = "closed"
  /\ tlog' = Append(tlog, "close_writer")
  /\ dpc' = "join"
  /\ UNCHANGED << inputs, calcVars, mainVars, termVars, reader_thread, sent, relayVars,
                  childVars, engineVars, sendRes >>

\* A faulty drop: the thread's handle is let go of without waiting for the
\* thread.
DropDetach ==
  /\ pc = "drop"
  /\ dpc = "join"
  /\ reader_thread = "held"
  /\ reader_thread' = "joined"
  /\ tlog' = Append(tlog, "join")
  /\ dpc' = "sleep"
  /\ UNCHANGED << inputs, calcVars, mainVars, termVars, writer, sent, relayVars, childVars,
                  engineVars, sendRes >>

\* Drop for PtyManager, lines 160-163: join returns once the relay thread
\* has left its loop.
DropJoin ==
  /\ pc = "drop"
  /\ dpc = "join"
  /\ reader_thread = "held"
  /\ relay \in { "eof", "failed" }
  /\ reader_thread' = "joined"
  /\ tlog' = Append(tlog, "join")
  /\ dpc' = "sleep"
  /\ UNCHANGED << inputs, calcVars, mainVars, termVars, writer, sent, relayVars, childVars,
                  engineVars, sendRes >>

\* Drop for PtyManager, line 167: the pause of 100 ms.
DropSleep ==
  /\ pc = "drop"
  /\ dpc = "sleep"
  /\ tlog' = Append(tlog, "sleep")
  /\ dpc' = "drain"
  /\ UNCHANGED << inputs, calcVars, mainVars, termVars, ptyVars, relayVars, childVars,
                  engineVars, sendRes >>

\* Drop for PtyManager, lines 171-177: the pending input events are read and
\* discarded while poll(0) reports one, when standard input is a terminal.
DropDrainInput ==
  /\ pc = "drop"
  /\ dpc = "drain"
  /\ IF stdinTty
       THEN /\ stdinPending' = 0
            /\ tlog' = Append(tlog, "drain")
       ELSE UNCHANGED << stdinPending, tlog >>
  /\ dpc' = "guard"
  /\ UNCHANGED << inputs, calcVars, mainVars, termMode, savedMode, guard, ptyVars, relayVars,
                  childVars, engineVars, sendRes >>

\* Drop for RawModeGuard: disable_raw_mode puts back the mode that
\* enable_raw_mode saved, when the guard enabled raw mode.  It runs when the
\* PtyManager's fields are dropped after its own drop, or alone when
\* PtyManager::new fails; main then goes on, or returns its error.
RawModeGuardDrop ==
  /\ pc = "drop"
  /\ dpc = "guard"
  /\ IF guard = "on"
       THEN /\ termMode' = savedMode[1]
            /\ savedMode' = None
            /\ tlog' = Append(tlog, "restore")
       ELSE UNCHANGED << termMode, savedMode, tlog >>
  /\ guard' = "dropped"
  /\ dpc' = "done"
  /\ pc' = IF result = "ok" THEN "complete" ELSE "exited"
  /\ UNCHANGED << inputs, calcVars, session, result, path, printed, stdinPending, ptyVars,
                  relayVars, childVars, engineVars, sendRes >>

\* A faulty main: the completion message is printed before the engine, and
\* with it the session, is dropped.
PrintCompleteEarly ==
  /\ \/ /\ pc = "drop" /\ dpc = "close" /\ result = "ok"
        /\ printed = << "status" >>
        /\ printed' = Append(printed, "complete")
        /\ UNCHANGED pc
     \/ /\ pc = "complete"
        /\ pc' = "exited"
        /\ UNCHANGED printed
  /\ UNCHANGED << inputs, calcVars, session, result, path, termVars, ptyVars, relayVars,
                  childVars, engineVars, dropVars, sendRes >>

\* main, lines 100-105: the completion message, the pause, the return.
PrintComplete ==
  /\ pc = "complete"
  /\ printed' = Append(printed, "complete")
  /\ pc' = "exited"
  /\ UNCHANGED << inputs, calcVars, session, result, path, termVars, ptyVars, relayVars,
                  childVars, engineVars, dropVars, sendRes >>

(***************************************************************************)
(* The child, the terminal and the relay thread                            *)
(***************************************************************************)

\* The terminal answers at most MaxPending queries on standard input.
MaxPending == 1

\* The child writes a byte to the pty.
ChildOutput ==
  /\ pc # "exited"
  /\ child = "alive"
  /\ Len(produced) < MaxOut
  /\ produced' = Append(produced, Len(produced) + 1)
  /\ ptyOut' = Append(ptyOut, Len(produced) + 1)
  /\ UNCHANGED << inputs, calcVars, mainVars, termVars, ptyVars, relay, chunk, stdout, child,
                  engineVars, dropVars, sendRes >>

\* The child exits (it was told to, it met the end of its input, it
\* failed), which closes its side of the pty.
ChildExit ==
  /\ pc # "exited"
  /\ child = "alive"
  /\ child' = "exited"
  /\ UNCHANGED << inputs, calcVars, mainVars, termVars, ptyVars, relayVars, produced,
                  engineVars, dropVars, sendRes >>

\* The terminal answers a query it was sent with an event on standard input.
TerminalReply ==
  /\ pc # "exited"
  /\ stdinTty /\ stdoutTty
  /\ stdout # << >>
  /\ stdinPending < MaxPending
  /\ stdinPending' = stdinPending + 1
  /\ UNCHANGED << inputs, calcVars, mainVars, termMode, savedMode, guard, ptyVars, relayVars,
                  childVars, engineVars, dropVars, sendRes >>

\* The relay thread, line 112, Ok(n): a read returns some of the bytes
\* that wait.
RelayRead ==
  /\ pc # "exited"
  /\ relay = "running"
  /\ chunk = << >>
  /\ \E n \in 1..Len(ptyOut) :
       /\ chunk' = SubSeq(ptyOut, 1, n)
       /\ ptyOut' = Tail0(ptyOut, n)
  /\ UNCHANGED << inputs, calcVars, mainVars, termVars, ptyVars, relay, stdout, childVars,
                  engineVars, dropVars, sendRes >>

\* A faulty relay: a successful write leaves out the last byte read.
RelayWriteShort ==
  /\ pc # "exited"
  /\ relay = "running"
  /\ chunk # << >>
  /\ stdout' = stdout \o SubSeq(chunk, 1, Len(chunk) - 1)
  /\ chunk' = << >>
  /\ UNCHANGED << inputs, calcVars, mainVars, termVars, ptyVars, relay, ptyOut, childVars,
                  engineVars, dropVars, sendRes >>

\* The relay thread, lines 116-121: write_all and flush of the bytes read.
\* When either fails, some of them (m) have reached standard output and
\* the thread leaves its loop.
RelayWrite ==
  /\ pc # "exited"
  /\ relay = "running"
  /\ chunk # << >>
  /\ \/ /\ stdout' = stdout \o chunk
        /\ UNCHANGED relay
     \/ \E m \in 0..Len(chunk) :
          /\ stdout' = stdout \o SubSeq(chunk, 1, m)
          /\ relay' = "failed"
  /\ chunk' = << >>
  /\ UNCHANGED << inputs, calcVars, mainVars, termVars, ptyVars, ptyOut, childVars,
                  engineVars, dropVars, sendRes >>

\* The relay thread, line 113: the end of the stream, once the child's side
\* is closed and everything it wrote has been read (a read of zero bytes, or
\* the error by which the pty reports the closed side, line 123).
RelayEof ==
  /\ pc # "exited"
  /\ relay = "running"
  /\ chunk = << >>
  /\ ptyOut = << >>
  /\ child = "exited"
  /\ relay' = "eof"
  /\ UNCHANGED << inputs, calcVars, mainVars, termVars, ptyVars, chunk, ptyOut, stdout,
                  childVars, engineVars, dropVars, sendRes >>

\* The relay thread, line 123: a read fails before the end of the stream.
RelayReadErr ==
  /\ pc # "exited"
  /\ relay = "running"
  /\ chunk = << >>
  /\ relay' = "failed"
  /\ UNCHANGED << inputs, calcVars, mainVars, termVars, ptyVars, chunk, ptyOut, stdout,
                  childVars, engineVars, dropVars, sendRes >>

(***************************************************************************)
(* Playback Engine (playback.rs)                                           *)
(***************************************************************************)

\* PlaybackEngine::should_continue
should_continue == running

\* PlaybackEngine::new: the flag, the Ctrl-C handler, the default
\* configuration.  When set_handler fails the session passed in is dropped.
EngineNew ==
  /\ pc = "engine_new"
  /\ running' = TRUE
  /\ \E ok \in BOOLEAN :
       IF ok
         THEN /\ handler' = TRUE
              /\ config' = DefaultConfig
              /\ pc' = "execute"
              /\ UNCHANGED << result, path, dpc >>
         ELSE /\ pc' = "drop"
              /\ dpc' = "close"
              /\ Leave("err", "engine_fail")
              /\ UNCHANGED << handler, config >>
  /\ UNCHANGED << inputs, calcVars, session, printed, termVars, ptyVars, relayVars, childVars,
                  cmdIdx, i, epc, delays, checks, started, checkFalse, tlog, sendRes >>

\* The Ctrl-C handler: r.store(false).
Interrupt ==
  /\ pc # "exited"
  /\ handler
  /\ running' = FALSE
  /\ UNCHANGED << inputs, calcVars, mainVars, termVars, ptyVars, relayVars, childVars,
                  handler, config, cmdIdx, i, epc, delays, checks, started,
                  checkFalse, dropVars, sendRes >>

\* execute, lines 172-179: the end of the script, or the check before a
\* command.  On Ok main drops the engine, and with it the session.
ExecuteLoop ==
  /\ pc = "execute"
  /\ epc = "loop"
  /\ IF cmdIdx > Len(script)
       THEN /\ pc' = "drop"
            /\ dpc' = "close"
            /\ Leave("ok", IF checkFalse THEN "cancel" ELSE "normal")
            /\ UNCHANGED << epc, checks, started, checkFalse >>
       ELSE IF ~should_continue
         THEN /\ checkFalse' = TRUE
              /\ pc' = "drop"
              /\ dpc' = "close"
              /\ Leave("ok", "cancel")
              /\ UNCHANGED << epc, checks, started >>
         ELSE /\ checks' = checks + 1
              /\ started' = started + 1
              /\ epc' = "cmd"
              /\ UNCHANGED << pc, dpc, result, path, checkFalse >>
  /\ UNCHANGED << inputs, calcVars, session, printed, termVars, ptyVars, relayVars, childVars,
                  running, handler, config, cmdIdx, i, delays, tlog, sendRes >>

\* A faulty execute_command: SetJitter stores its value as the speed too.
RunCommandJitterSetsSpeed ==
  /\ pc = "execute"
  /\ epc = "cmd"
  /\ LET c == script[cmdIdx]
     IN  /\ config' = IF c.op = "SetSpeed" THEN [config EXCEPT !.speed = c.arg]
                      ELSE IF c.op = "SetJitter" THEN [speed |-> c.arg, jitter |-> c.arg]
                      ELSE config
         /\ epc' = IF c.op = "Wait" THEN "wait"
                   ELSE IF c.op = "Type" THEN "type"
                   ELSE "loop"
         /\ cmdIdx' = IF c.op \in { "Wait", "Type" } THEN cmdIdx ELSE cmdIdx + 1
         /\ i' = 0
  /\ UNCHANGED << inputs, calcVars, mainVars, termVars, ptyVars, relayVars, childVars, running,
                  handler, delays, checks, started, checkFalse, dropVars, sendRes >>

\* execute_command, lines 114-135: the arms of the match but for the body
\* of the Type loop.
RunCommand ==
  /\ pc = "execute"
  /\ epc = "cmd"
  /\ LET c == script[cmdIdx]
     IN  /\ config' = IF c.op = "SetSpeed" THEN [config EXCEPT !.speed = c.arg]
                      ELSE IF c.op = "SetJitter" THEN [config EXCEPT !.jitter = c.arg]
                      ELSE config
         /\ epc' = IF c.op = "Wait" THEN "wait"
                   ELSE IF c.op = "Type" THEN "type"
                   ELSE "loop"
         /\ cmdIdx' = IF c.op \in { "Wait", "Type" } THEN cmdIdx ELSE cmdIdx + 1
         /\ i' = 0
  /\ UNCHANGED << inputs, calcVars, mainVars, termVars, ptyVars, relayVars, childVars, running,
                  handler, delays, checks, started, checkFalse, dropVars, sendRes >>

\* A faulty Wait: the sleep ends early when the Running flag is false, and
\* execute returns.
WaitInterruptible ==
  /\ pc = "execute"
  /\ epc = "wait"
  /\ IF running
       THEN /\ epc' = "loop"
            /\ cmdIdx' = cmdIdx + 1
            /\ UNCHANGED << pc, dpc, result, path >>
       ELSE /\ pc' = "drop"
            /\ dpc' = "close"
            /\ Leave("ok", "cancel")
            /\ UNCHANGED << epc, cmdIdx >>
  /\ UNCHANGED << inputs, calcVars, session, printed, termVars, ptyVars, relayVars,
                  childVars, running, handler, config, i, delays, checks, started,
                  checkFalse, tlog, sendRes >>

\* execute_command, line 122: the sleep of a Wait is over.
WaitDone ==
  /\ pc = "execute"
  /\ epc = "wait"
  /\ epc' = "loop"
  /\ cmdIdx' = cmdIdx + 1
  /\ UNCHANGED << inputs, calcVars, mainVars, termVars, ptyVars, relayVars, childVars, running,
                  handler, config, i, delays, checks, started, checkFalse, dropVars,
                  sendRes >>

\* A faulty Type loop: a check that reads false does not return.
TypeCheckNoReturn ==
  /\ pc = "execute"
  /\ epc = "type"
  /\ IF i >= Len(script[cmdIdx].arg)
       THEN /\ epc' = "loop"
            /\ cmdIdx' = cmdIdx + 1
            /\ UNCHANGED << checks, checkFalse >>
       ELSE /\ checkFalse' = (checkFalse \/ ~running)
            /\ checks' = checks + 1
            /\ epc' = "send"
            /\ UNCHANGED cmdIdx
  /\ UNCHANGED << inputs, calcVars, mainVars, termVars, ptyVars, relayVars, childVars, running,
                  handler, config, i, delays, started, dropVars, sendRes >>

\* execute_command, lines 136-139: the end of the text, or the check before
\* a unit; a check that reads false returns Ok(()) to execute's loop.
TypeCheck ==
  /\ pc = "execute"
  /\ epc = "type"
  /\ IF i >= Len(script[cmdIdx].arg)
       THEN /\ epc' = "loop"
            /\ cmdIdx' = cmdIdx + 1
            /\ UNCHANGED << checks, checkFalse >>
       ELSE IF ~should_continue
         THEN /\ checkFalse' = TRUE
              /\ epc' = "loop"
              /\ cmdIdx' = cmdIdx + 1
              /\ UNCHANGED checks
         ELSE /\ checks' = checks + 1
              /\ epc' = "send"
              /\ UNCHANGED << cmdIdx, checkFalse >>
  /\ UNCHANGED << inputs, calcVars, mainVars, termVars, ptyVars, relayVars, childVars, running,
                  handler, config, i, delays, started, dropVars, sendRes >>

\* Whether a write to the child can fail: it can once the child has exited.
WriteFailures == IF child = "alive" THEN { FALSE } ELSE { FALSE, TRUE }

\* A faulty Type loop: a send that fails is passed over, and the loop goes
\* on with the unit after it.
TypeSendIgnoresError ==
  /\ pc = "execute"
  /\ epc = "send"
  /\ LET text == script[cmdIdx].arg
         n == UnitLen(text, i)
         unit == Slice(text, i, n)
     IN  \E fail \in WriteFailures :
           LET r == IF text[i + 1] = ESC
                      THEN send_keystroke(writer, sent, unit, fail)
                      ELSE send_char(writer, sent, unit, fail)
           IN  /\ IsCharBoundary(text, i + n)
               /\ sent' = r.input
               /\ i' = i + n
               /\ epc' = "delay"
  /\ UNCHANGED << inputs, calcVars, mainVars, termVars, writer, reader_thread,
                  relayVars, childVars, running, handler, config, cmdIdx, delays,
                  checks, started, checkFalse, dropVars, sendRes >>

\* The panic of the slice at line 145: it unwinds through main, which drops
\* the engine and with it the session, or, in a build whose panics abort,
\* ends the process where it is.
SlicePanic ==
  \E unwinds \in BOOLEAN :
    /\ pc' = IF unwinds THEN "drop" ELSE "exited"
    /\ dpc' = IF unwinds THEN "close" ELSE dpc
    /\ Leave("panic", "slice_panic")
    /\ UNCHANGED << sent, i, epc >>

\* execute_command, lines 142-149 and 156-158: the unit at offset i is sent
\* in one call.  The slice text[i..i + seq_len] of an escape run panics
\* when it does not end on a char boundary.  An error is returned through
\* execute to main, which drops the engine, and with it the session.
TypeSend ==
  /\ pc = "execute"
  /\ epc = "send"
  /\ LET text == script[cmdIdx].arg
         n == UnitLen(text, i)
         unit == Slice(text, i, n)
     IN  IF text[i + 1] = ESC /\ ~IsCharBoundary(text, i + n)
           THEN SlicePanic
           ELSE \E fail \in WriteFailures :
                  LET r == IF text[i + 1] = ESC
                             THEN send_keystroke(writer, sent, unit, fail)
                             ELSE send_char(writer, sent, unit, fail)
                  IN  IF r.ok
                        THEN /\ sent' = r.input
                             /\ i' = i + n
                             /\ epc' = "delay"
                             /\ UNCHANGED << pc, dpc, result, path >>
                        ELSE /\ pc' = "drop"
                             /\ dpc' = "close"
                             /\ Leave("err", "exec_err")
                             /\ UNCHANGED << sent, i, epc >>
  /\ UNCHANGED << inputs, calcVars, session, printed, termVars, writer, reader_thread,
                  relayVars, childVars, running, handler, config, cmdIdx, delays,
                  checks, started, checkFalse, tlog, sendRes >>

\* A faulty Type loop: the Running flag is read before the first unit only,
\* and after a delay the next unit is sent without a check.
TypeDelayNoCheck ==
  /\ pc = "execute"
  /\ epc = "delay"
  /\ delays' = delays + 1
  /\ epc' = IF i < Len(script[cmdIdx].arg) THEN "send" ELSE "type"
  /\ checks' = IF i < Len(script[cmdIdx].arg) THEN checks + 1 ELSE checks
  /\ UNCHANGED << inputs, calcVars, mainVars, termVars, ptyVars, relayVars, childVars, running,
                  handler, config, cmdIdx, i, started, checkFalse, dropVars,
                  sendRes >>

\* execute_command, lines 152-153 and 161-162: the delay after a unit.
TypeDelay ==
  /\ pc = "execute"
  /\ epc = "delay"
  /\ delays' = delays + 1
  /\ epc' = "type"
  /\ UNCHANGED << inputs, calcVars, mainVars, termVars, ptyVars, relayVars, childVars, running,
                  handler, config, cmdIdx, i, checks, started, checkFalse, dropVars,
                  sendRes >>

(***************************************************************************)
(* The program                                                             *)
(***************************************************************************)

Next ==
  \/ ResolveShell
  \/ PrintStatus
  \/ RawModeGuardNew
  \/ OpenPty
  \/ EngineNew
  \/ Interrupt
  \/ ExecuteLoop
  \/ RunCommand
  \/ WaitDone
  \/ TypeCheck
  \/ TypeSend
  \/ TypeDelay
  \/ DropCloseWriter
  \/ DropJoin
  \/ DropSleep
  \/ DropDrainInput
  \/ RawModeGuardDrop
  \/ PrintComplete
  \/ ChildOutput
  \/ ChildExit
  \/ TerminalReply
  \/ RelayRead
  \/ RelayWrite
  \/ RelayEof
  \/ RelayReadErr

Spec == Init /\ [][Next]_vars

\* The steps of the program's own threads: main with the engine and the
\* teardown, and the relay thread when a read returns bytes or the end of
\* the stream, or a write returns.  The timers of Wait and of the delays
\* run out.  What the child, the terminal and the user do, and whether a
\* read fails, is not the program's to decide.
ProgramStep ==
  \/ ResolveShell
  \/ PrintStatus
  \/ RawModeGuardNew
  \/ OpenPty
  \/ EngineNew
  \/ ExecuteLoop
  \/ RunCommand
  \/ WaitDone
  \/ TypeCheck
  \/ TypeSend
  \/ TypeDelay
  \/ DropCloseWriter
  \/ DropJoin
  \/ DropSleep
  \/ DropDrainInput
  \/ RawModeGuardDrop
  \/ PrintComplete
  \/ RelayRead
  \/ RelayWrite
  \/ RelayEof

\* The program with its threads scheduled: a step of the program that stays
\* possible is taken.
FairSpec == Spec /\ WF_vars(ProgramStep)

(***************************************************************************)
(* A session used through its API                                          *)
(***************************************************************************)

\* The sends a caller of the API makes.
MaxSends == 2

\* The data a caller of the API sends.
ApiData == { Str(<<"a">>), << ESC >> \o Str(<<"[","A">>) }

\* A session that PtyManager::new has just returned to a caller.
InitSession ==
  /\ cliShell = None
  /\ envShell = None
  /\ stdoutTty \in BOOLEAN
  /\ stdinTty \in BOOLEAN
  /\ script = << >>
  /\ preMode \in PriorModes
  /\ pc = "api"
  /\ session = [shell |-> Str(<<"b","a","s","h">>), cols |-> DefaultCols, rows |-> DefaultRows]
  /\ result = "none"
  /\ path = "api"
  /\ printed = << >>
  /\ termMode = IF stdoutTty THEN "raw" ELSE preMode
  /\ savedMode = IF stdoutTty THEN Some(preMode) ELSE None
  /\ guard = IF stdoutTty THEN "on" ELSE "off"
  /\ writer = "open"
  /\ reader_thread = "held"
  /\ relay = "running"
  /\ chunk = << >>
  /\ child = "alive"
  /\ produced = << >>
  /\ ptyOut = << >>
  /\ stdout = << >>
  /\ sent = << >>
  /\ stdinPending = 0
  /\ running = TRUE
  /\ handler = FALSE
  /\ config = DefaultConfig
  /\ cmdIdx = 1
  /\ i = 0
  /\ epc = "loop"
  /\ delays = 0
  /\ checks = 0
  /\ started = 0
  /\ checkFalse = FALSE
  /\ dpc = "none"
  /\ tlog = << >>
  /\ sendRes = << >>
  /\ source = << >>
  /\ compiled = None
  /\ delay = None
  /\ escInput = << >>
  /\ seqLen = None

\* A call of send_keystroke or send_char, on the session as it is: open, or
\* with its write handle closed by the teardown.
ApiSend(data, fail, byChar) ==
  /\ pc \in { "api", "drop" }
  /\ Len(sendRes) < MaxSends
  /\ LET r == IF byChar THEN send_char(writer, sent, data, fail)
              ELSE send_keystroke(writer, sent, data, fail)
     IN  /\ sent' = r.input
         /\ sendRes' = Append(sendRes, [closed |-> writer = "closed", ok |-> r.ok,
                                        wrote |-> r.input # sent])
  /\ UNCHANGED << inputs, calcVars, mainVars, termVars, writer, reader_thread, relayVars,
                  childVars, engineVars, dropVars >>

ApiSendKeystroke == \E data \in ApiData, fail \in WriteFailures : ApiSend(data, fail, FALSE)

ApiSendChar == \E fail \in WriteFailures : ApiSend(Str(<<"a">>), fail, TRUE)

\* The caller lets go of the session: its teardown starts.
ApiClose ==
  /\ pc = "api"
  /\ pc' = "drop"
  /\ dpc' = "close"
  /\ UNCHANGED << inputs, calcVars, session, result, path, printed, termVars, ptyVars,
                  relayVars, childVars, engineVars, tlog, sendRes >>

NextSession ==
  \/ ApiSendKeystroke
  \/ ApiSendChar
  \/ ApiClose
  \/ DropCloseWriter
  \/ DropJoin
  \/ DropSleep
  \/ DropDrainInput
  \/ RawModeGuardDrop
  \/ ChildExit
  \/ RelayEof
  \/ RelayReadErr

SpecSession == InitSession /\ [][NextSession]_vars

(***************************************************************************)
(* The compiler on its own                                                 *)
(***************************************************************************)

\* The lines the script texts are made of.  Beside each is what the grammar
\* of the script format makes of it: "cmd" with its command, "skip" for a
\* blank line or a comment, "bad_a" for a line that starts with none of '@',
\* '#' and '$', "bad_b" for a '@' line that is no well-formed directive,
\* "bad_c" for a directive with text after it, and "abort" for a wait
\* directive whose value no Duration can hold.
ScriptLines ==
  << [text |-> Str(<<"@"," ","s","p","e","e","d",":","0",".","2">>),
      class |-> "cmd", cmd |-> SetSpeed(F64(200000))],
     [text |-> Str(<<"@"," ","j","i","t","t","e","r",":","0",".","0","2">>),
      class |-> "cmd", cmd |-> SetJitter(F64(20000))],
     [text |-> Str(<<"#"," ","c">>),
      class |-> "skip", cmd |-> NoCmd],
     [text |-> Str(<<"$"," ","e","c","h","o"," ","h","i">>),
      class |-> "cmd", cmd |-> Type(Str(<<"e","c","h","o"," ","h","i">>))],
     [text |-> Str(<<"@"," ","w","a","i","t",":","1",".","0">>),
      class |-> "cmd", cmd |-> Wait(1000000)],
     [text |-> Str(<<"$"," ","l","s"," ","-","l","a">>),
      class |-> "cmd", cmd |-> Type(Str(<<"l","s"," ","-","l","a">>))],
     [text |-> << >>,
      class |-> "skip", cmd |-> NoCmd],
     [text |-> Str(<<" ">>) \o << 9 >>,
      class |-> "skip", cmd |-> NoCmd],
     [text |-> Str(<<" "," ","@"," ","s","i","z","e",":","1","2","0",":","4","0"," "," ">>),
      class |-> "cmd", cmd |-> SetSize(120, 40)],
     [text |-> Str(<<"@"," ","s","h","e","l","l",":"," ","/","b","i","n","/","s","h">>),
      class |-> "cmd", cmd |-> SetShell(Str(<<"/","b","i","n","/","s","h">>))],
     [text |-> Str(<<"e","c","h","o"," ","h","i">>),
      class |-> "bad_a", cmd |-> NoCmd],
     [text |-> Str(<<"@"," ","b","o","g","u","s",":","1">>),
      class |-> "bad_b", cmd |-> NoCmd],
     [text |-> Str(<<"@"," ","s","p","e","e","d",":","a","b","c">>),
      class |-> "bad_b", cmd |-> NoCmd],
     [text |-> Str(<<"@"," ","s","i","z","e",":","1","2","0">>),
      class |-> "bad_b", cmd |-> NoCmd],
     [text |-> Str(<<"@"," ","w","a","i","t",":","1",".","0"," ","s">>),
      class |-> "bad_c", cmd |-> NoCmd],
     [text |-> Str(<<"@"," ","w","a","i","t",":","-","1">>),
      class |-> "abort", cmd |-> NoCmd],
     [text |-> Str(<<"@"," ","w","a","i","t",":","i","n","f">>),
      class |-> "abort", cmd |-> NoCmd],
     [text |-> Str(<<"@"," ","w","a","i","t",":","1","e","3","0">>),
      class |-> "abort", cmd |-> NoCmd] >>

\* A script text has at most MaxLines lines.
MaxLines == 2

\* The text whose k-th line is line idx[k] of ScriptLines, each line ended by
\* a line feed.
RECURSIVE JoinLines(_)
JoinLines(idx) ==
  IF idx = << >> THEN << >>
  ELSE ScriptLines[idx[1]].text \o << LF >> \o JoinLines(Tail(idx))

\* The script of the compiler's test test_parse_script.
ExampleText == JoinLines(<< 1, 2, 3, 4, 5, 6 >>)

SourceTexts ==
  { JoinLines(idx) :
      idx \in UNION { [1..n -> 1..Len(ScriptLines)] : n \in 0..MaxLines } }
    \cup { ExampleText }

\* A text is about to be compiled; main is not running.
InitCompile ==
  /\ cliShell = None
  /\ envShell = None
  /\ stdoutTty = FALSE
  /\ stdinTty = FALSE
  /\ script = << >>
  /\ preMode = "cooked"
  /\ Blank
  /\ source \in SourceTexts
  /\ compiled = None
  /\ delay = None
  /\ escInput = << >>
  /\ seqLen = None

\* parse_script(source) returns, or aborts the process.
Compile ==
  /\ compiled = None
  /\ compiled' = Some(parse_script(source))
  /\ UNCHANGED << inputs, mainVars, termVars, ptyVars, relayVars, childVars,
                  engineVars, dropVars, sendRes, source, delay, escInput, seqLen >>

NextCompile == Compile

SpecCompile == InitCompile /\ [][NextCompile]_vars

(***************************************************************************)
(* The compiler on type lines with key notations                           *)
(***************************************************************************)

\* The names of the bare special keys.
SpecialKeyNames ==
  { Str(<<"e","s","c">>), Str(<<"s","p","a","c","e">>), Str(<<"r","e","t">>),
    Str(<<"r","e","t","u","r","n">>), Str(<<"e","n","t","e","r">>), Str(<<"t","a","b">>),
    Str(<<"b","a","c","k","s","p","a","c","e">>), Str(<<"b","s">>), Str(<<"F","1">>),
    Str(<<"F","2">>), Str(<<"F","3">>), Str(<<"F","4">>), Str(<<"F","5">>),
    Str(<<"F","6">>), Str(<<"F","7">>), Str(<<"F","8">>), Str(<<"F","9">>),
    Str(<<"F","1","0">>), Str(<<"F","1","1">>), Str(<<"F","1","2">>), Str(<<"u","p">>),
    Str(<<"d","o","w","n">>), Str(<<"r","i","g","h","t">>), Str(<<"l","e","f","t">>),
    Str(<<"h","o","m","e">>), Str(<<"e","n","d">>), Str(<<"p","a","g","e","u","p">>),
    Str(<<"p","g","u","p">>), Str(<<"p","a","g","e","d","o","w","n">>),
    Str(<<"p","g","d","n">>), Str(<<"i","n","s","e","r","t">>), Str(<<"i","n","s">>),
    Str(<<"d","e","l","e","t","e">>), Str(<<"d","e","l">>) }

\* Single characters used as base keys: the lowercase letters, some other
\* ASCII characters, and a character of two bytes (e with an acute accent).
KeyChars ==
  { << b >> : b \in 97..122 }
    \cup { Str(<<"A">>), Str(<<"1">>), Str(<<"[">>), Str(<<"]">>), Str(<<"\\">>),
           Str(<<" ">>), Str(<<"-">>), << 195, 169 >> }

\* The base keys of the key notations: special keys, single characters and
\* a name that is no key.
BaseKeys == SpecialKeyNames \cup KeyChars \cup { Str(<<"f","o","o">>) }

\* The modifier tokens of the key notations, none for a bare key.
ModifierLists ==
  { << >>, << Str(<<"C">>) >>, << Str(<<"C","t","r","l">>) >>, << Str(<<"A">>) >>,
    << Str(<<"M">>) >>, << Str(<<"A","l","t">>) >>, << Str(<<"S">>) >>,
    << Str(<<"A">>), Str(<<"S">>) >>, << Str(<<"C">>), Str(<<"A">>) >>,
    << Str(<<"C">>), Str(<<"S">>) >>, << Str(<<"X">>) >> }

\* The key specification "m1-m2-...-key".
RECURSIVE KeySpec(_, _)
KeySpec(mods, key) ==
  IF mods = << >> THEN key ELSE mods[1] \o << Ord("-") >> \o KeySpec(Tail(mods), key)

\* The script of one type line that holds the key notation <spec>.
KeySource(mods, key) ==
  Str(<<"$"," ","<">>) \o KeySpec(mods, key) \o Str(<<">">>) \o << LF >>

\* Texts to put between an escaped '<' and an escaped '>'.
EscTexts ==
  { Str(<<"n","o","t"," ","a"," ","k","e","y">>), << >>, Str(<<"a">>),
    Str(<<"<","u","p",">">>), Str(<<"a","<","C","-","c",">","b">>),
    Str(<<"<","C","-","\\",">">>), Str(<<"x","\\">>), Str(<<"\\","<","b","\\",">">>),
    Str(<<"<","a">>), Str(<<"<">>), Str(<<"a","<","b">>) }

\* The script of the type line "$ \<t\>".
EscSource(t) == Str(<<"$"," ","\\","<">>) \o t \o Str(<<"\\",">">>) \o << LF >>

\* A type line with a key notation, or with escaped brackets, is about to
\* be compiled.
InitKeys ==
  /\ cliShell = None
  /\ envShell = None
  /\ stdoutTty = FALSE
  /\ stdinTty = FALSE
  /\ script = << >>
  /\ preMode = "cooked"
  /\ Blank
  /\ source \in { KeySource(m, k) : m \in ModifierLists, k \in BaseKeys }
                   \cup { EscSource(t) : t \in EscTexts }
  /\ compiled = None
  /\ delay = None
  /\ escInput = << >>
  /\ seqLen = None

SpecKeys == InitKeys /\ [][NextCompile]_vars

(***************************************************************************)
(* The delay computation on its own                                        *)
(***************************************************************************)

\* Speeds in millionths of a second (each a multiple of 0.1 ms) and jitters
\* in millionths (each a multiple of 0.01).
DelaySpeeds == { 0, 500, 1500, 10000, 50000, 100500 }
DelayJitters == { 100000, 500000, 1000000, 1500000 }

\* An engine with some speed and jitter is about to compute a delay.
InitDelay ==
  /\ cliShell = None
  /\ envShell = None
  /\ stdoutTty = FALSE
  /\ stdinTty = FALSE
  /\ script = << >>
  /\ preMode = "cooked"
  /\ pc = "resolve"
  /\ session = [shell |-> << >>, cols |-> 0, rows |-> 0]
  /\ result = "none"
  /\ path = "none"
  /\ printed = << >>
  /\ termMode = preMode
  /\ savedMode = None
  /\ guard = "none"
  /\ writer = "none"
  /\ reader_thread = "none"
  /\ relay = "none"
  /\ chunk = << >>
  /\ child = "none"
  /\ produced = << >>
  /\ ptyOut = << >>
  /\ stdout = << >>
  /\ sent = << >>
  /\ stdinPending = 0
  /\ running = TRUE
  /\ handler = FALSE
  /\ \E s \in DelaySpeeds, j \in DelayJitters :
       config = [speed |-> F64(s), jitter |-> F64(j)]
  /\ cmdIdx = 1
  /\ i = 0
  /\ epc = "loop"
  /\ delays = 0
  /\ checks = 0
  /\ started = 0
  /\ checkFalse = FALSE
  /\ dpc = "none"
  /\ tlog = << >>
  /\ sendRes = << >>
  /\ source = << >>
  /\ compiled = None
  /\ delay = None
  /\ escInput = << >>
  /\ seqLen = None

\* calculate_delay returns, for one of the values the generator can give.
CalculateDelay ==
  /\ delay = None
  /\ \E variation \in 0..(2 * jitter_ms(config)) :
       delay' = Some(calculate_delay(config, variation))
  /\ UNCHANGED << inputs, mainVars, termVars, ptyVars, relayVars, childVars,
                  engineVars, dropVars, sendRes, source, compiled, escInput, seqLen >>

NextDelay == CalculateDelay

SpecDelay == InitDelay /\ [][NextDelay]_vars

(***************************************************************************)
(* The engine on one script                                                *)
(***************************************************************************)

\* The contents of the type lines the engine is run on: plain text of one to
\* three bytes a character, keys of every length of escape run, and escape
\* runs that end the text early or meet a multi-byte character.
TypeSources ==
  { Str(<<"a","b">>),
    << 195, 169 >>,
    Str(<<"a">>) \o << 226, 130, 172 >> \o Str(<<"b">>),
    Str(<<"a","<","u","p",">","b">>),
    Str(<<"<","F","5",">">>),
    Str(<<"<","F","1",">","x">>),
    Str(<<"<","e","s","c",">">>),
    Str(<<"<","e","s","c",">","O">>),
    Str(<<"<","e","s","c",">","[">>),
    Str(<<"<","e","s","c",">","[","1",";","2">>),
    Str(<<"<","e","s","c",">","[","1",";","5","C","z">>),
    Str(<<"<","A","-","x",">","y">>),
    Str(<<"<","A","-","u","p",">">>),
    Str(<<"<","C","-","c",">","<","e","n","t","e","r",">">>),
    Str(<<"<","e","s","c",">">>) \o << 195, 169 >>,
    Str(<<"<","e","s","c",">","[">>) \o << 195, 169 >>,
    Str(<<"<","e","s","c",">","[","1",";">>) \o << 226, 130, 172 >>,
    Str(<<"<","e","s","c",">","O">>) \o << 195, 169 >>,
    Str(<<"x","<","A","-">>) \o << 195, 169 >> \o Str(<<">">>) }

\* The scripts of one or two Type commands compiled from them.
TypeScripts ==
  { << parse_type(t) >> : t \in TypeSources }
    \cup { << parse_type(t), parse_type(Str(<<"c">>)) >> : t \in TypeSources }

\* The state in which main calls execute: the session is open, the engine
\* has been made, nothing has been sent.
Executing ==
  /\ cliShell = None
  /\ envShell = None
  /\ stdoutTty = TRUE
  /\ stdinTty = TRUE
  /\ preMode = "cooked"
  /\ pc = "execute"
  /\ session = ResolveSession(cliShell, envShell, script)
  /\ result = "none"
  /\ path = "none"
  /\ printed = << "status" >>
  /\ termMode = "raw"
  /\ savedMode = Some(preMode)
  /\ guard = "on"
  /\ writer = "open"
  /\ reader_thread = "held"
  /\ relay = "running"
  /\ chunk = << >>
  /\ child = "alive"
  /\ produced = << >>
  /\ ptyOut = << >>
  /\ stdout = << >>
  /\ sent = << >>
  /\ stdinPending = 0
  /\ running = TRUE
  /\ handler = TRUE
  /\ config = DefaultConfig
  /\ cmdIdx = 1
  /\ i = 0
  /\ epc = "loop"
  /\ delays = 0
  /\ checks = 0
  /\ started = 0
  /\ checkFalse = FALSE
  /\ dpc = "none"
  /\ tlog = << >>
  /\ sendRes = << >>
  /\ source = << >>
  /\ compiled = None
  /\ delay = None

InitType ==
  /\ script \in TypeScripts
  /\ Executing
  /\ escInput = << >>
  /\ seqLen = None

\* execute and what runs beside it: the Ctrl-C handler, and the child, whose
\* exit makes a send fail.  The run ends where main drops the engine.
NextType ==
  \/ Interrupt
  \/ ChildExit
  \/ ExecuteLoop
  \/ RunCommand
  \/ TypeCheck
  \/ TypeSend
  \/ TypeDelay

SpecType == InitType /\ [][NextType]_vars

(***************************************************************************)
(* escape_sequence_length on its own, and in the Type loop                 *)
(***************************************************************************)

\* The bytes escape runs are made of here, and the longest run tried.
EscAlphabet == { ESC, Ord("["), Ord("O"), Ord("1"), Ord(";"), Ord("A"), Ord("~") }
MaxEscLen == 4

\* Every sequence of these bytes that starts with ESC.
EscInputs ==
  UNION { { << ESC >> \o t : t \in [1..n -> EscAlphabet] } : n \in 0..(MaxEscLen - 1) }

\* main calls execute on the script of one Type command whose text is the
\* sequence.
InitEsc ==
  /\ escInput \in EscInputs
  /\ script = << Type(escInput) >>
  /\ Executing
  /\ seqLen = None

\* escape_sequence_length(escInput) returns.
EscapeSequenceLength ==
  /\ seqLen = None
  /\ seqLen' = Some(escape_sequence_length(escInput))
  /\ UNCHANGED << inputs, mainVars, termVars, ptyVars, relayVars, childVars,
                  engineVars, dropVars, sendRes, source, compiled, delay, escInput >>

NextEsc ==
  \/ EscapeSequenceLength
  \/ ExecuteLoop
  \/ RunCommand
  \/ TypeCheck
  \/ TypeSend
  \/ TypeDelay

SpecEsc == InitEsc /\ [][NextEsc]_vars

(***************************************************************************)
(* Properties                                                              *)
(***************************************************************************)

IsPrefix(s, t) == Len(s) <= Len(t) /\ s = SubSeq(t, 1, Len(s))

\* The teardown steps of a session, in the order of Drop for PtyManager and
\* the drop of its guard field after it.
CloseSteps ==
  << "close_writer", "join", "sleep" >> \o (IF stdinTty THEN << "drain" >> ELSE << >>)
RestoreStep == IF stdoutTty THEN << "restore" >> ELSE << >>

\* The session has been opened and its teardown has not started.
Active == reader_thread = "held" /\ dpc = "none"

\* C1: closing a session closes the write handle, joins the relay thread,
\* pauses, drains the pending input when standard input is a terminal, and
\* then leaves raw mode, in this order, each step after the one before has
\* finished; raw mode is left only when open entered it.
C1_TeardownOrder ==
  /\ IsPrefix(tlog, IF writer = "none" THEN RestoreStep ELSE CloseSteps \o RestoreStep)
  /\ (dpc = "done" /\ writer # "none") => tlog = CloseSteps \o RestoreStep
  /\ (\E k \in 1..Len(tlog) : tlog[k] = "join")
       => writer = "closed" /\ reader_thread = "joined" /\ relay \in { "eof", "failed" }
  /\ (guard = "on" /\ dpc # "done") => termMode = "raw"
  /\ (\E k \in 1..Len(tlog) : tlog[k] = "restore") => guard = "dropped" /\ stdoutTty

C1_Witness ==
  /\ dpc = "done"
  /\ tlog = << "close_writer", "join", "sleep", "drain", "restore" >>
  /\ stdinPending = 0
  /\ termMode = preMode

\* C2: on every way out of the program after raw mode was enabled, the
\* teardown has run and the terminal is not left in raw mode.
C2_RestoredOnExit ==
  pc = "exited" =>
    /\ termMode # "raw"
    /\ termMode = preMode
    /\ guard # "on"
    /\ writer # "none" => (writer = "closed" /\ reader_thread = "joined"
                            /\ tlog = CloseSteps \o RestoreStep)

C2_Witness ==
  /\ pc = "exited"
  /\ path = "exec_err"
  /\ stdoutTty
  /\ tlog = CloseSteps \o << "restore" >>

\* C3: execute reads the Running flag before each command and before each
\* unit of a Type command; once a read has returned false nothing more is
\* sent, no further command is started, and execute returns Ok.
C3_StopsOnFalse ==
  /\ [](checks = started + Len(sent) + (IF epc = "send" THEN 1 ELSE 0))
  /\ [][checkFalse => /\ sent' = sent
                      /\ started' = started
                      /\ config' = config
                      /\ result' \in { "none", "ok" }
                      /\ (pc' # "execute" => result' = "ok")]_vars

C3_Witness ==
  /\ checkFalse
  /\ pc = "exited"
  /\ result = "ok"
  /\ Len(sent) = 1
  /\ started < Len(script)

\* Whether a CSI sequence (ESC, '[', parameter bytes, one final byte) starts
\* at the 1-based position p of text, and the position of its final byte.
CsiEnd(text, p) == p + SkipParams(Tail0(text, p - 1), 2)
IsCsi(text, p) ==
  /\ p + 1 <= Len(text)
  /\ text[p] = ESC
  /\ text[p + 1] = Ord("[")
  /\ CsiEnd(text, p) <= Len(text)

\* C4: every CSI sequence of a Type text is sent whole in one send, which
\* one delay follows: no send ends inside it.
C4_CsiAtomic ==
  (pc = "execute" /\ epc = "delay") =>
    /\ delays = Len(sent) - 1
    /\ \A p \in 1..Len(script[cmdIdx].arg) :
         IsCsi(script[cmdIdx].arg, p)
           => ~(p <= i /\ i < CsiEnd(script[cmdIdx].arg, p))

\* The key notations whose sending C5 is checked on.
KeyNotations ==
  { Str(<<"u","p">>), Str(<<"F","1">>), Str(<<"F","5">>), Str(<<"h","o","m","e">>),
    Str(<<"A","-","x">>), Str(<<"C","-","A","-","x">>), Str(<<"A","-","u","p">>),
    Str(<<"A","-","F","1">>), Str(<<"p","g","u","p">>) }

\* C5: a key notation that resolves to several bytes starting with ESC is
\* sent in one send holding all its bytes (here: when it is the whole text
\* of a Type command, the first send takes the whole text).
C5_KeyAtomic ==
  (pc = "execute" /\ epc = "delay") =>
    \A k \in KeyNotations :
      LET bytes == ResolveKeySpec(k)
      IN  (script[cmdIdx].arg = bytes /\ Len(bytes) > 1 /\ bytes[1] = ESC)
            => i = Len(bytes)

\* C6: a send on a session whose write handle has been closed returns an
\* error and writes nothing.
C6_ClosedSendFails ==
  \A k \in 1..Len(sendRes) :
    sendRes[k].closed => (~sendRes[k].ok /\ ~sendRes[k].wrote)

C6_Witness ==
  /\ writer = "closed"
  /\ \E k \in 1..Len(sendRes) : sendRes[k].closed /\ ~sendRes[k].ok
  /\ \E k \in 1..Len(sendRes) : ~sendRes[k].closed /\ sendRes[k].ok

\* C7: open enters raw mode exactly when standard output is a terminal and
\* does not fail because it is not one; once the session is closed the
\* terminal has the mode it had before open.
C7_RawModeIffTty ==
  /\ guard \in { "on", "off" } => ((guard = "on") <=> stdoutTty)
  /\ guard = "on" => (termMode = "raw" /\ savedMode = Some(preMode))
  /\ guard = "off" => termMode = preMode
  /\ path = "raw_fail" => stdoutTty
  /\ guard \in { "none", "dropped" } => termMode = preMode

C7_Witness ==
  /\ guard = "dropped"
  /\ writer = "closed"
  /\ stdoutTty
  /\ preMode = "noecho"
  /\ termMode = "noecho"

\* C8 as claimed: while the session is active the write handle and the
\* relay thread are live, and the relay stops only once the teardown has
\* closed the write handle.
C8_RelayLiveWhileActive ==
  /\ Active => (writer = "open" /\ relay = "running")
  /\ relay \in { "eof", "failed" } => writer = "closed"

\* C8, amended: while the session is active the write handle is open and
\* the relay thread has been started and not joined; it is joined only in
\* the teardown, after the write handle has been closed.  (The thread may
\* leave its loop earlier: when the child's output ends or a read or write
\* of the relay fails.)
C8_HandlesHeldWhileActive ==
  /\ Active => (writer = "open" /\ relay # "none" /\ pc \in { "engine_new", "execute" })
  /\ reader_thread = "joined"
       => (writer = "closed" /\ relay \in { "eof", "failed" }
           /\ pc \in { "drop", "complete", "exited" })
  /\ writer = "closed" => dpc # "none"

C8_Witness ==
  /\ Active
  /\ pc = "execute"
  /\ sent # << >>
  /\ relay = "eof"
  /\ writer = "open"

ScriptShell(cmds) ==
  LET found == ScanCommands(cmds, 1, [shell |-> << >>, cols |-> 0, rows |-> 0]).shell
  IN  IF found = << >> THEN None ELSE Some(found)

\* C10: the shell is the command-line override if given, else the script's
\* shell directive, else $SHELL, else bash.
C10_ShellPriority ==
  pc # "resolve" =>
    session.shell = IF cliShell # None THEN cliShell[1]
                    ELSE IF ScriptShell(script) # None THEN ScriptShell(script)[1]
                    ELSE IF envShell # None THEN envShell[1]
                    ELSE Str(<<"b","a","s","h">>)

\* The index of the first Type of cmds, Len(cmds) + 1 if there is none.
FirstType(cmds) ==
  IF \E k \in 1..Len(cmds) : cmds[k].op = "Type"
    THEN CHOOSE k \in 1..Len(cmds) :
           cmds[k].op = "Type" /\ \A j \in 1..(k - 1) : cmds[j].op # "Type"
    ELSE Len(cmds) + 1

\* The index of the last command `op` of cmds before its first Type, 0 if
\* there is none.
LastBefore(cmds, op) ==
  LET ks == { k \in 1..(FirstType(cmds) - 1) : cmds[k].op = op }
  IN  IF ks = {} THEN 0 ELSE CHOOSE k \in ks : \A j \in ks : j <= k

Compiled == compiled[1]

\* The number of the line of ScriptLines whose text is l.
LineNo(l) == CHOOSE k \in 1..Len(ScriptLines) : ScriptLines[k].text = l

\* The lines of the source, as numbers of lines of ScriptLines.
SourceLineNos == [k \in 1..Len(Lines(source)) |-> LineNo(Lines(source)[k])]

\* A line that is non-empty after trimming and does not start with '#'.
IsContentLine(l) == Trim(l) # << >> /\ Trim(l)[1] # Ord("#")

CmdEq(a, b) == a.op = b.op /\ a.arg = b.arg

\* C12: the command list of a script that compiles holds exactly one command
\* per line that is non-empty after trimming and does not start with '#', in
\* source order, each the command of its line; a script of blank lines and
\* comments compiles to the empty list; the script of test_parse_script
\* compiles to SetSpeed(0.2), SetJitter(0.02), Type("echo hi"), Wait(1 s),
\* Type("ls -la").
C12_OneCommandPerContentLine ==
  compiled # None =>
    LET content == SelectSeq(Lines(source), IsContentLine)
        cs == Compiled.commands
    IN  /\ Compiled.kind = "Ok" =>
             /\ Len(cs) = Len(content)
             /\ \A j \in 1..Len(cs) : CmdEq(cs[j], ScriptLines[LineNo(content[j])].cmd)
        /\ content = << >> => (Compiled.kind = "Ok" /\ cs = << >>)
        /\ source = ExampleText =>
             /\ Compiled.kind = "Ok"
             /\ Len(cs) = 5
             /\ CmdEq(cs[1], SetSpeed(F64(200000)))
             /\ CmdEq(cs[2], SetJitter(F64(20000)))
             /\ CmdEq(cs[3], Type(Str(<<"e","c","h","o"," ","h","i">>)))
             /\ CmdEq(cs[4], Wait(1000000))
             /\ CmdEq(cs[5], Type(Str(<<"l","s"," ","-","l","a">>)))

\* The script of test_parse_script has been compiled, to five commands.
C12_Witness ==
  /\ compiled # None
  /\ source = ExampleText
  /\ Compiled.kind = "Ok"
  /\ Len(Compiled.commands) = 5

\* The numbers of the lines of the source that the script format rejects,
\* and of those on which the compile aborts.
BadLines == { k \in 1..Len(SourceLineNos) :
                ScriptLines[SourceLineNos[k]].class \in { "bad_a", "bad_b", "bad_c" } }
AbortLines == { k \in 1..Len(SourceLineNos) :
                  ScriptLines[SourceLineNos[k]].class = "abort" }
FirstBad == CHOOSE k \in BadLines : \A j \in BadLines : k <= j

C14_CompileTotal ==
  compiled # None => Compiled.kind \in { "Ok", "Err" }

\* The text "<spec>".
Literal(spec) == Str(<<"<">>) \o spec \o Str(<<">">>)

\* The source has compiled to one Type command with this text.
TypedAs(text) ==
  /\ Compiled.kind = "Ok"
  /\ Len(Compiled.commands) = 1
  /\ Compiled.commands[1].op = "Type"
  /\ Compiled.commands[1].arg = text

\* The modifiers a list of modifier tokens names.
HasCtrl(m) == \E j \in 1..Len(m) : m[j] \in { Str(<<"C">>), Str(<<"C","t","r","l">>) }
HasAlt(m) ==
  \E j \in 1..Len(m) : m[j] \in { Str(<<"A">>), Str(<<"M">>), Str(<<"A","l","t">>) }
HasShift(m) == \E j \in 1..Len(m) : m[j] = Str(<<"S">>)
CtrlOnly(m) == HasCtrl(m) /\ ~HasAlt(m) /\ ~HasShift(m)

\* C15: with Ctrl as the only modifier, a lowercase letter x resolves to the
\* byte ord(x) - ord('a') + 1 (<C-c> is 0x03), space to 0x00, '[' to 0x1B,
\* ']' to 0x1D and '\' to 0x1C; any other special key resolves to the
\* literal bracketed text.
C15_CtrlCodes ==
  compiled # None =>
    /\ source = KeySource(<< Str(<<"C">>) >>, Str(<<"c">>)) => TypedAs(<< 3 >>)
    /\ \A m \in ModifierLists, k \in BaseKeys :
         (source = KeySource(m, k) /\ CtrlOnly(m)) =>
           IF Len(k) = 1 /\ k[1] \in Ord("a")..Ord("z")
             THEN TypedAs(<< k[1] - Ord("a") + 1 >>)
           ELSE IF k = Str(<<"s","p","a","c","e">>) THEN TypedAs(<< 0 >>)
           ELSE IF k = Str(<<"[">>) THEN TypedAs(<< 27 >>)
           ELSE IF k = Str(<<"]">>) THEN TypedAs(<< 29 >>)
           ELSE IF k = Str(<<"\\">>) THEN TypedAs(<< 28 >>)
           ELSE IF k \in SpecialKeyNames THEN TypedAs(Literal(KeySpec(m, k)))
           ELSE TRUE

\* The line "$ <C-c>" has compiled to the byte 0x03.
C15_Witness ==
  /\ compiled # None
  /\ source = KeySource(<< Str(<<"C">>) >>, Str(<<"c">>))
  /\ TypedAs(<< 3 >>)

\* C16: with Alt or Meta among the modifiers and Ctrl not, a base key that
\* is a special key or a single character resolves to 0x1B followed by the
\* resolution of the key alone: what <k> resolves to for a special key, the
\* character for a single character.
C16_AltPrefixesEsc ==
  compiled # None =>
    \A m \in ModifierLists, k \in SpecialKeyNames \cup KeyChars :
      (source = KeySource(m, k) /\ HasAlt(m) /\ ~HasCtrl(m)) =>
        TypedAs(<< 27 >> \o (IF k \in SpecialKeyNames THEN parse_type_content(Literal(k))
                             ELSE k))

\* An ASCII character that is no letter and none of space, '[', ']', '\'.
OtherAscii == { Str(<<"1">>), Str(<<"-">>) }
AsciiNonLetters == OtherAscii \cup { Str(<<"[">>), Str(<<"]">>), Str(<<"\\">>), Str(<<" ">>) }

\* The key specs no rule of the resolver covers: an unknown bare name, an
\* unknown base key, Shift or Ctrl+Shift with a special key, Ctrl with a
\* character that has no control code, Ctrl+Shift or Ctrl+Alt with a
\* character that is no letter, and a spec with no recognized modifier.
NotCovered(m, k) ==
  \/ m = << >> /\ k \notin SpecialKeyNames
  \/ k = Str(<<"f","o","o">>)
  \/ HasShift(m) /\ ~HasAlt(m) /\ k \in SpecialKeyNames
  \/ CtrlOnly(m) /\ k \in OtherAscii
  \/ HasCtrl(m) /\ (HasShift(m) \/ HasAlt(m)) /\ k \in AsciiNonLetters
  \/ m # << >> /\ ~HasCtrl(m) /\ ~HasAlt(m) /\ ~HasShift(m)

\* C17: key resolution never fails: a key spec s that is no bare special
\* key and that no modifier rule covers resolves to '<' s '>', and the type
\* line around it compiles to a Type command.
C17_UnknownKeyIsLiteral ==
  compiled # None =>
    /\ Compiled.kind = "Ok"
    /\ \A m \in ModifierLists, k \in BaseKeys :
         (source = KeySource(m, k) /\ NotCovered(m, k)) =>
           TypedAs(Literal(KeySpec(m, k)))

\* The line "$ <S-up>" has compiled to the text "<S-up>".
C17_Witness ==
  /\ compiled # None
  /\ source = KeySource(<< Str(<<"S">>) >>, Str(<<"u","p">>))
  /\ TypedAs(Str(<<"<","S","-","u","p",">">>))

\* C18 as stated: an escaped bracket is always literal and never opens or
\* closes a key spec, so for every text t the line "$ \<t\>" compiles to
\* '<', the compilation of t, '>'.
C18_EscapesAlwaysLiteral ==
  compiled # None =>
    \A t \in EscTexts :
      source = EscSource(t) => TypedAs(Str(<<"<">>) \o parse_type_content(t) \o Str(<<">">>))

\* Every '<' of t that no backslash precedes has a '>' after it in t.
KeySpecsClosed(t) ==
  \A q \in 1..Len(t) :
    (t[q] = Ord("<") /\ (q = 1 \/ t[q - 1] # Ord("\\"))) =>
      \E r \in (q + 1)..Len(t) : t[r] = Ord(">")

\* C18, amended: an escaped bracket met outside a key spec is literal, while
\* a key spec opened by '<' runs to the next '>' even if a backslash
\* precedes it; so the line "$ \<t\>" compiles to '<', the compilation of
\* t, '>' for every text t in which each '<' that no backslash precedes has
\* a '>' after it.
C18_EscapesLiteralOutsideKeySpec ==
  compiled # None =>
    /\ \A t \in EscTexts :
         (source = EscSource(t) /\ KeySpecsClosed(t)) =>
           TypedAs(Str(<<"<">>) \o parse_type_content(t) \o Str(<<">">>))
    /\ source = EscSource(Str(<<"<","a">>)) => TypedAs(Str(<<"<","<","a","\\",">">>))

\* The line "$ \<not a key\>" has compiled to "<not a key>", and the line
\* "$ \<a<C-c>b\>" to '<', 'a', 0x03, 'b', '>'.
C18_Witness ==
  /\ compiled # None
  /\ \/ /\ source = EscSource(Str(<<"n","o","t"," ","a"," ","k","e","y">>))
        /\ TypedAs(Str(<<"<","n","o","t"," ","a"," ","k","e","y",">">>))
     \/ /\ source = EscSource(Str(<<"a","<","C","-","c",">","b">>))
        /\ TypedAs(Str(<<"<","a">>) \o << 3 >> \o Str(<<"b",">">>))

\* The speed in tenths of a millisecond and the jitter in hundredths: exact
\* for the speeds and jitters of DelaySpeeds and DelayJitters.
SpeedTenthMs == config.speed.micro \div 100
JitterHundredths == config.jitter.micro \div 10000
Max0(x) == IF x < 0 THEN 0 ELSE x

C20_WaitNotInterrupted ==
  /\ [][(pc = "execute" /\ epc = "wait" /\ ~running') =>
          /\ pc' = "execute"
          /\ result' = result
          /\ epc' = "wait" \/ (epc' = "loop" /\ cmdIdx' = cmdIdx + 1)
          /\ UNCHANGED << sent, started, config >>]_vars
  /\ [][(/\ pc = "execute"
          /\ epc = "loop"
          /\ cmdIdx > 1
          /\ script[cmdIdx - 1].op = "Wait"
          /\ ~running) =>
          /\ UNCHANGED << sent, started, config >>
          /\ pc' = "execute" => UNCHANGED << epc, cmdIdx >>
          /\ pc' # "execute" => (pc' = "drop" /\ result' = "ok" /\ path' = "cancel")]_vars

\* The flag went false no later than the check after a Wait, and execute has
\* returned at that check: the Wait was the third and last command started,
\* of five, and what was sent is what the Type before the Wait sent.
C20_Witness ==
  /\ Len(script) = 5
  /\ script[3].op = "Wait"
  /\ pc = "drop"
  /\ path = "cancel"
  /\ cmdIdx = 4
  /\ started = 3
  /\ Len(sent) = 2
  /\ config.jitter = F64(DefaultJitter)

\* A step of the engine at a send: of all the steps that can be taken while
\* the engine is about to send, the send alone moves the engine or main.
SendStep == pc = "execute" /\ epc = "send" /\ << pc, epc >>' # << pc, epc >>

\* C21: a send that fails in a Type command makes execute return the error
\* at once: the send is not made again, no later unit of the command is
\* sent, no later command is executed, and the configuration stays as it
\* was.
C21_SendErrorIsTerminal ==
  /\ [][(SendStep /\ sent' = sent)
          => /\ pc' = "drop"
             /\ result' = "err"
             /\ path' = "exec_err"
             /\ << config, cmdIdx, i, started >>' = << config, cmdIdx, i, started >>]_vars
  /\ [][path = "exec_err"
          => /\ pc' # "execute"
             /\ result' = "err"
             /\ << sent, config, cmdIdx, i, epc, started, checks, delays >>'
                  = << sent, config, cmdIdx, i, epc, started, checks, delays >>]_vars

C21_Witness ==
  /\ pc = "exited"
  /\ path = "exec_err"
  /\ result = "err"
  /\ Len(sent) = 1
  /\ i > 0 /\ i < Len(script[cmdIdx].arg)
  /\ cmdIdx < Len(script)
  /\ config = [speed |-> F64(50000), jitter |-> F64(DefaultJitter)]

\* The number of times a step occurs in the teardown log.
Times(step) == Cardinality({ k \in 1..Len(tlog) : tlog[k] = step })

\* The session is open: PtyManager::new has begun to change the terminal or
\* to start the child, and the teardown has not finished.
SessionOpen == (guard \in { "on", "off" } \/ writer # "none") /\ dpc # "done"

\* C22: while a session is open the relay thread is the only writer to
\* standard output: main prints its status lines before the session is
\* opened and its completion message only after the teardown has finished
\* (the relay thread joined, the terminal restored); the session is torn
\* down exactly once.
C22_RelayIsOnlyWriterWhileOpen ==
  /\ [][printed' # printed => ~SessionOpen /\ ~SessionOpen']_vars
  /\ [][stdout' # stdout => SessionOpen /\ relay = "running" /\ reader_thread = "held"]_vars
  /\ []((\E k \in 1..Len(printed) : printed[k] = "complete")
          => /\ printed = << "status", "complete" >>
             /\ result = "ok"
             /\ dpc = "done" /\ guard = "dropped" /\ termMode = preMode
             /\ writer = "closed" /\ reader_thread = "joined"
             /\ relay \in { "eof", "failed" })
  /\ [](\A step \in { "close_writer", "join", "sleep", "drain", "restore" } : Times(step) <= 1)
  /\ []((pc = "exited" /\ writer # "none") => Times("close_writer") = 1 /\ Times("join") = 1)

C22_Witness ==
  /\ pc = "exited"
  /\ printed = << "status", "complete" >>
  /\ stdout = << 1, 2 >>
  /\ Len(sent) > 0
  /\ stdoutTty
  /\ tlog = CloseSteps \o << "restore" >>

\* The step of execute_command that takes up the command c: of all the
\* steps that can be taken while the engine holds a command it has not
\* begun, this one alone moves the engine.
CommandStep(c) ==
  pc = "execute" /\ epc = "cmd" /\ epc' # epc /\ CmdEq(script[cmdIdx], c)

\* The engine has gone on to the check before the next command, having sent
\* nothing and slept for nothing.
NextCommandAtOnce ==
  /\ epc' = "loop"
  /\ cmdIdx' = cmdIdx + 1
  /\ << sent, delays, pc >>' = << sent, delays, pc >>

\* C23: the configuration starts at speed 0.1 and jitter 0.0 and changes
\* only when a command is executed: SetSpeed(v) sets the speed to v and
\* keeps the jitter, SetJitter(v) sets the jitter to v and keeps the speed,
\* the other commands keep both.  SetSpeed, SetJitter, SetShell and SetSize
\* send nothing and do not suspend the engine.
C23_ConfigChangedOnlyBySetters ==
  /\ []((cmdIdx = 1 /\ epc \in { "loop", "cmd" })
          => config = [speed |-> F64(100000), jitter |-> F64(0)])
  /\ [][config' # config
          => \E c \in { script[k] : k \in 1..Len(script) } :
               CommandStep(c) /\ c.op \in { "SetSpeed", "SetJitter" }]_vars
  /\ [][\A c \in { script[k] : k \in 1..Len(script) } :
          CommandStep(c)
            => /\ c.op = "SetSpeed"
                    => config' = [speed |-> c.arg, jitter |-> config.jitter]
               /\ c.op = "SetJitter"
                    => config' = [speed |-> config.speed, jitter |-> c.arg]
               /\ c.op \in { "Wait", "SetShell", "SetSize", "Type" } => config' = config
               /\ c.op \in { "SetSpeed", "SetJitter", "SetShell", "SetSize" }
                    => NextCommandAtOnce]_vars

C23_Witness ==
  /\ pc = "exited"
  /\ result = "ok"
  /\ ~checkFalse
  /\ config = [speed |-> F64(50000), jitter |-> F64(100000)]
  /\ Len(sent) = 3

\* The bytes of a sequence of units, in order.
RECURSIVE Flatten(_)
Flatten(units) ==
  IF units = << >> THEN << >> ELSE units[1] \o Flatten(Tail(units))

\* The texts of the Type commands before the k-th command, in order.
RECURSIVE TypedBefore(_)
TypedBefore(k) ==
  IF k <= 1 THEN << >>
  ELSE TypedBefore(k - 1) \o (IF script[k - 1].op = "Type" THEN script[k - 1].arg ELSE << >>)

\* Whether a byte is a UTF-8 continuation byte, and whether a unit is one
\* whole code point.
IsContinuation(b) == b >= 128 /\ b < 192
IsCodePoint(u) ==
  /\ u # << >>
  /\ ~IsContinuation(u[1])
  /\ Len(u) = LenUtf8(u[1])
  /\ \A j \in 2..Len(u) : IsContinuation(u[j])

\* The engine is inside the Type loop.
InType == epc \in { "type", "send", "delay" }

\* C24: as long as no check has read false, what has been sent is, byte for
\* byte and in order, the texts of the Type commands gone through and the
\* part of the current text before the offset (the whole text once the
\* command has run to its end); each unit is one whole code point or starts
\* with ESC; and each send is directly followed by one delay, so that there
\* are as many delays as units.
C24_TypeSendsTextInUnits ==
  /\ [](~checkFalse
          => Flatten(sent) = TypedBefore(cmdIdx)
                               \o (IF InType THEN SubSeq(script[cmdIdx].arg, 1, i) ELSE << >>))
  /\ [](\A k \in 1..Len(sent) : IsCodePoint(sent[k]) \/ sent[k][1] = ESC)
  /\ [](delays = Len(sent) - (IF epc = "delay" THEN 1 ELSE 0))
  /\ [][sent' # sent => Len(sent') = Len(sent) + 1 /\ epc' = "delay"]_vars
  /\ [][(epc = "delay" /\ epc' # epc)
          => delays' = delays + 1 /\ sent' = sent /\ epc' = "type"]_vars

C24_Witness ==
  /\ pc = "drop"
  /\ path = "normal"
  /\ Len(script) = 2
  /\ sent = << Str(<<"a">>), << ESC >> \o Str(<<"[","A">>), Str(<<"b">>), Str(<<"c">>) >>
  /\ delays = 4

\* The number of parameter bytes (ASCII digits and ';') that follow the
\* first two bytes of b.
IsParamByte(x) == IsAsciiDigit(x) \/ x = Ord(";")
ParamCount(b) ==
  CHOOSE n \in 0..(Len(b) - 2) :
    /\ \A j \in 3..(2 + n) : IsParamByte(b[j])
    /\ 2 + n = Len(b) \/ ~IsParamByte(b[3 + n])

\* The length rule for a sequence b that starts with ESC.
EscRule(b) ==
  IF Len(b) = 1 THEN 1
  ELSE IF b[2] = Ord("[")
    THEN 2 + ParamCount(b) + (IF 2 + ParamCount(b) < Len(b) THEN 1 ELSE 0)
  ELSE IF b[2] = Ord("O") THEN (IF Len(b) >= 3 THEN 3 ELSE 2)
  ELSE 2

\* C25: for a sequence that starts with ESC, escape_sequence_length gives 1
\* for ESC alone; after '[' the two bytes, the parameter bytes and one more
\* byte if there is one; after 'O' three if there are three, else two; two
\* otherwise.  It is at least 1 and at most the length of the sequence, so
\* that each unit sent moves the offset of the Type loop forward, never past
\* the end of the text, and the loop ends there.
C25_EscapeLengthRule ==
  /\ [](seqLen # None
          => /\ seqLen[1] = EscRule(escInput)
             /\ seqLen[1] >= 1
             /\ seqLen[1] <= Len(escInput))
  /\ [](i <= Len(escInput))
  /\ [][(pc = "execute" /\ epc = "send" /\ epc' # epc)
          => /\ escInput[i + 1] = ESC => i' = i + EscRule(Tail0(escInput, i))
             /\ i' > i]_vars
  /\ [](path = "normal" => i = Len(escInput) /\ Flatten(sent) = escInput)

C25_Witness ==
  /\ escInput = << ESC >> \o Str(<<"[","1","A">>)
  /\ seqLen = Some(4)
  /\ sent = << escInput >>
  /\ path = "normal"

\* C26: once the teardown of a session has started it runs to its end: the
\* join of the relay thread returns and the terminal's mode is restored,
\* whatever the child does after its input has been closed.
C26_TeardownCompletes ==
  (dpc = "close") ~> (dpc = "done" /\ reader_thread = "joined" /\ termMode = preMode)

\* C27: for every text the compiler makes of a type line, each unit the
\* engine takes ends on a code-point boundary of the text, so that the
\* slice of the text never aborts the Type command and no part of a code
\* point is sent.
C27_UnitsOnCharBoundaries ==
  /\ path # "slice_panic"
  /\ (pc = "execute" /\ epc = "send")
       => IsCharBoundary(script[cmdIdx].arg, i + UnitLen(script[cmdIdx].arg, i))
  /\ \A k \in 1..Len(sent) : ~IsContinuation(sent[k][1])

\* C28: however the Ctrl-C handler's store falls between the steps of the
\* playback loop, the flag once false stays false; with the flag false the
\* engine does not come to a send (so the one unit that can still go out is
\* the one whose check had read true before the store, and a send is one
\* unit); and after a check has read false nothing is sent.
C28_AtMostOneUnitAfterStop ==
  /\ [][~running => ~running']_vars
  /\ [][(~running /\ epc # "send") => epc' # "send"]_vars
  /\ [][sent' # sent
          => epc = "send" /\ epc' = "delay" /\ Len(sent') = Len(sent) + 1]_vars
  /\ [](epc = "send" => checks = started + Len(sent) + 1)
  /\ [](checkFalse => ~running /\ epc # "send")
  /\ [][checkFalse => sent' = sent]_vars

\* The store has fallen between the check before a unit and its send, after
\* an earlier unit: the unit is still to go out.
C28_Witness ==
  /\ pc = "execute"
  /\ epc = "send"
  /\ ~running
  /\ ~checkFalse
  /\ Len(sent) = 1
  /\ child = "alive"

====
